---- MODULE Spec2Model ----
(***************************************************************************)
(* NJIT Schedule Pro: the schedule solver (api/app/solver.py), the data    *)
(* model it works on (api/app/models.py) and the /solve handler            *)
(* (api/app/main.py), as a state machine.                                  *)
(*                                                                         *)
(* Conventions.                                                            *)
(*  - An Optional[T] value is None == <<>> or Some(v) == <<v>>.            *)
(*  - A Python str that the code inspects (instructor, location, section)  *)
(*    is a sequence of one-character strings, so that lower(), upper(),    *)
(*    startswith() and the substring test `in` are computed.               *)
(*  - credits is a float in the code; the model holds whole credits.       *)
(*  - score is a float in the code; the model holds 1000 x score as an     *)
(*    integer (ScoreMilli).  The three upper terms are whole numbers and   *)
(*    the tie-break is k x 0.001 with k in 0..999; float rounding is       *)
(*    monotone and far finer than 0.001 at the magnitudes of the model, so *)
(*    the order of the floats is the order of these integers.              *)
(*  - Offering.title, term, info and comments are never read by the        *)
(*    solver or the handler and are left out of the record.                *)
(***************************************************************************)
EXTENDS Integers, Sequences, FiniteSets, TLC

(***************************************************************************)
(* Bounds of the model.                                                    *)
(***************************************************************************)
MaxCatalog == 3

MaxRequired == 2

(***************************************************************************)
(* Optional values and Python truthiness.                                  *)
(***************************************************************************)
None == <<>>

Some(v) == <<v>>

IsNone(x) == x = <<>>

Val(x) == x[1]

\* `if x` for an Optional number: None and 0 are falsy.
TruthyNum(x) == (~IsNone(x)) /\ Val(x) # 0

\* `if x` for an Optional list or Optional str: None and the empty value are falsy.
TruthySeq(x) == (~IsNone(x)) /\ Val(x) # <<>>

(***************************************************************************)
(* Strings: str.lower, str.upper, substring test, startswith.              *)
(***************************************************************************)
UpperAlpha == <<"A","B","C","D","E","F","G","H","I","J","K","L","M",
                "N","O","P","Q","R","S","T","U","V","W","X","Y","Z">>

LowerAlpha == <<"a","b","c","d","e","f","g","h","i","j","k","l","m",
                "n","o","p","q","r","s","t","u","v","w","x","y","z">>

IndexIn(c, alpha) == CHOOSE i \in 1..Len(alpha) : alpha[i] = c

LowerChar(c) ==
    IF \E i \in 1..Len(UpperAlpha) : UpperAlpha[i] = c
    THEN LowerAlpha[IndexIn(c, UpperAlpha)] ELSE c

UpperChar(c) ==
    IF \E i \in 1..Len(LowerAlpha) : LowerAlpha[i] = c
    THEN UpperAlpha[IndexIn(c, LowerAlpha)] ELSE c

Lower(s) == [i \in 1..Len(s) |-> LowerChar(s[i])]

Upper(s) == [i \in 1..Len(s) |-> UpperChar(s[i])]

\* Python `sub in s`
Contains(sub, s) ==
    \E i \in 1..(Len(s) - Len(sub) + 1) : SubSeq(s, i, i + Len(sub) - 1) = sub

StartsWith(s, prefix) ==
    Len(s) >= Len(prefix) /\ SubSeq(s, 1, Len(prefix)) = prefix

\* any(x.lower() in text.lower() for x in names)
AnyContainedIn(names, text) ==
    \E k \in 1..Len(names) : Contains(Lower(names[k]), Lower(text))

(***************************************************************************)
(* models.py                                                               *)
(***************************************************************************)
DayOfWeek == {"Mon", "Tue", "Wed", "Thu", "Fri", "Sat", "Sun"}

Status == {"Open", "Closed", "Waitlist"}

DeliveryMode == {"In-Person", "Online", "Hybrid", "Async"}

Meeting(d, s, e, loc) ==
    [day |-> d, start_min |-> s, end_min |-> e, location |-> loc]

\* Meeting.overlaps with the negation of line 50 lost
overlaps_inverted(m, other) ==
    IF m.day # other.day THEN FALSE
    ELSE m.end_min <= other.start_min \/ m.start_min >= other.end_min

\* Meeting.overlaps with closed intervals: < and > where line 50 has <= and >=
overlaps_closed(m, other) ==
    IF m.day # other.day THEN FALSE
    ELSE ~(m.end_min < other.start_min \/ m.start_min > other.end_min)

\* Meeting.overlaps
overlaps(m, other) ==
    IF m.day # other.day THEN FALSE
    ELSE ~(m.end_min <= other.start_min \/ m.start_min >= other.end_min)

Max2(a, b) == IF a >= b THEN a ELSE b

Min2(a, b) == IF a <= b THEN a ELSE b

\* Meeting.conflicts_with_unavailable testing containment in the block
\* where line 61 tests intersection
conflicts_with_unavailable_contained(m, unavailable_start, unavailable_end) ==
    IF m.start_min < unavailable_start \/ m.end_min > unavailable_end
    THEN <<FALSE, 0>>
    ELSE <<TRUE, m.end_min - m.start_min>>

\* Meeting.conflicts_with_unavailable: <<conflicts, overlap_minutes>>
conflicts_with_unavailable(m, unavailable_start, unavailable_end) ==
    IF m.end_min <= unavailable_start \/ m.start_min >= unavailable_end
    THEN <<FALSE, 0>>
    ELSE <<TRUE, Min2(m.end_min, unavailable_end) - Max2(m.start_min, unavailable_start)>>

\* Offering.seats_available
seats_available(o) ==
    IF (~IsNone(o.capacity)) /\ (~IsNone(o.enrolled))
    THEN Some(Max2(0, Val(o.capacity) - Val(o.enrolled)))
    ELSE None

\* Offering.is_honors
is_honors(o) == StartsWith(Upper(o.section), <<"H">>)

\* Offering.overlaps_with
overlaps_with(o, other) ==
    \E i \in 1..Len(o.meetings) : \E j \in 1..Len(other.meetings) :
        overlaps(o.meetings[i], other.meetings[j])

AvailabilityBlock(d, s, e) == [day |-> d, start_min |-> s, end_min |-> e]

\* ScheduleFilters with its defaults
DefaultFilters ==
    [status |-> {"Open"},
     delivery |-> None,
     campus_include |-> None,
     campus_exclude |-> None,
     avoid_instructors |-> None,
     prefer_instructors |-> None,
     earliest_start |-> None,
     latest_end |-> None,
     max_gap_min |-> None,
     include_honors |-> TRUE,
     include_non_honors |-> TRUE]

\* SolveRequest (optional_course_keys is never read by the solver)
SolveRequest(keys, minc, maxc, unav, filt, maxres) ==
    [required_course_keys |-> keys,
     min_credits |-> minc,
     max_credits |-> maxc,
     unavailable |-> unav,
     filters |-> filt,
     max_results |-> maxres]

\* Schedule
Schedule(offs, credits, score) ==
    [offerings |-> offs, total_credits |-> credits, score |-> score]

(***************************************************************************)
(* Generic list helpers (Python built-ins used by the solver).             *)
(***************************************************************************)
RECURSIVE SumSeq(_)
SumSeq(s) == IF s = <<>> THEN 0 ELSE s[1] + SumSeq(Tail(s))

RECURSIVE FilterSeq(_, _)
\* [x for x in s if keep[x]] with keep given as a set
FilterSeq(s, keep) ==
    IF s = <<>> THEN <<>>
    ELSE IF s[1] \in keep THEN <<s[1]>> \o FilterSeq(Tail(s), keep)
    ELSE FilterSeq(Tail(s), keep)

SeqRange(s) == {s[i] : i \in 1..Len(s)}

Front(s) == SubSeq(s, 1, Len(s) - 1)

\* list.sort(key=...) and sorted(..., key=...): stable, ascending by key.
\* keyOf is the key as a function on the elements.
RECURSIVE InsertStable(_, _, _)
InsertStable(sorted, x, keyOf) ==
    IF sorted = <<>> THEN <<x>>
    ELSE IF keyOf[sorted[1]] <= keyOf[x]
         THEN <<sorted[1]>> \o InsertStable(Tail(sorted), x, keyOf)
         ELSE <<x>> \o sorted

RECURSIVE SortedStable(_, _)
SortedStable(s, keyOf) ==
    IF s = <<>> THEN <<>>
    ELSE InsertStable(SortedStable(Front(s), keyOf), s[Len(s)], keyOf)

(***************************************************************************)
(* CRN strings: str.isdigit, int(), hash().                                *)
(* "SUP2" stands for the one character U+00B2 (superscript two): a         *)
(* character for which str.isdigit() is True and which int() rejects.      *)
(***************************************************************************)
DecimalChars == <<"0", "1", "2", "3", "4", "5", "6", "7", "8", "9">>

IsDecimalChar(c) == \E i \in 1..Len(DecimalChars) : DecimalChars[i] = c

IsDigitChar(c) == IsDecimalChar(c) \/ c = "SUP2"

\* str.isdigit(): non-empty and every character is a digit
isdigit(s) == Len(s) > 0 /\ \A i \in 1..Len(s) : IsDigitChar(s[i])

\* int(s) raises ValueError
IntRaises(s) == \E i \in 1..Len(s) : ~IsDecimalChar(s[i])

DigitValue(c) == IndexIn(c, DecimalChars) - 1

RECURSIVE IntOf(_)
\* int(s) for a string of decimal characters
IntOf(s) ==
    IF s = <<>> THEN 0
    ELSE 10 * IntOf(SubSeq(s, 1, Len(s) - 1)) + DigitValue(s[Len(s)])

\* Values hash() may give a str in one process (PYTHONHASHSEED is random per
\* process: the value is fixed within a process and differs between processes).
HashValues == {-3, 4}

(***************************************************************************)
(* solver.py: ScheduleSolver.__init__                                      *)
(***************************************************************************)
\* offerings_by_course: course_key -> offerings of the catalog, in catalog order
GroupByCourse(cat) ==
    [ck \in {cat[i].course_key : i \in 1..Len(cat)} |->
        FilterSeq(cat, {o \in SeqRange(cat) : o.course_key = ck})]

\* dict.get(key, [])
Get(dict, key) == IF key \in DOMAIN dict THEN dict[key] ELSE <<>>

\* unavailable_by_day: day -> (start_min, end_min) pairs, in request order
BuildUnavailableByDay(unav) ==
    [d \in {unav[i].day : i \in 1..Len(unav)} |->
        LET blocks == FilterSeq(unav, {b \in SeqRange(unav) : b.day = d})
        IN [i \in 1..Len(blocks) |-> <<blocks[i].start_min, blocks[i].end_min>>]]

\* any meeting with a location that contains one of the campus names
AnyMeetingAt(o, campuses) ==
    \E i \in 1..Len(o.meetings) :
        /\ TruthySeq(o.meetings[i].location)
        /\ AnyContainedIn(campuses, Val(o.meetings[i].location))

\* the time-window test made on the first meeting of the offering only
OutsideTimeWindowFirstMeeting(o, filters) ==
    /\ (~IsNone(filters.earliest_start)) \/ (~IsNone(filters.latest_end))
    /\ o.meetings # <<>>
    /\ \/ (~IsNone(filters.earliest_start))
             /\ o.meetings[1].start_min < Val(filters.earliest_start)
       \/ (~IsNone(filters.latest_end))
             /\ o.meetings[1].end_min > Val(filters.latest_end)

\* lines 102-119: TRUE iff some meeting starts before earliest_start or ends
\* after latest_end (each bound tested with `is not None`)
OutsideTimeWindow(o, filters) ==
    /\ (~IsNone(filters.earliest_start)) \/ (~IsNone(filters.latest_end))
    /\ \E i \in 1..Len(o.meetings) :
          \/ (~IsNone(filters.earliest_start))
                /\ o.meetings[i].start_min < Val(filters.earliest_start)
          \/ (~IsNone(filters.latest_end))
                /\ o.meetings[i].end_min > Val(filters.latest_end)

\* the body of the loop of _prefilter_offerings: TRUE iff the offering is kept
PassesFilters(o, filters) ==
    /\ o.status \in filters.status
    /\ ~(TruthySeq(filters.delivery) /\ o.delivery \notin SeqRange(Val(filters.delivery)))
    /\ ~(/\ TruthySeq(filters.avoid_instructors)
         /\ TruthySeq(o.instructor)
         /\ AnyContainedIn(Val(filters.avoid_instructors), Val(o.instructor)))
    /\ ~(/\ TruthySeq(filters.campus_exclude)
         /\ o.meetings # <<>>
         /\ AnyMeetingAt(o, Val(filters.campus_exclude)))
    /\ ~(/\ TruthySeq(filters.campus_include)
         /\ o.meetings # <<>>
         /\ ~AnyMeetingAt(o, Val(filters.campus_include)))
    /\ ~OutsideTimeWindow(o, filters)
    /\ ~(is_honors(o) /\ ~filters.include_honors)
    /\ ~((~is_honors(o)) /\ ~filters.include_non_honors)

\* _prefilter_offerings: every list of offerings_by_course replaced by its kept part
_prefilter_offerings(obc, filters) ==
    [ck \in DOMAIN obc |->
        FilterSeq(obc[ck], {o \in SeqRange(obc[ck]) : PassesFilters(o, filters)})]

(***************************************************************************)
(* solver.py: the checks of _backtrack                                     *)
(***************************************************************************)
_has_conflict(offering, schedule) ==
    \E i \in 1..Len(schedule) : overlaps_with(offering, schedule[i])

_conflicts_with_availability(offering, ubd) ==
    \E i \in 1..Len(offering.meetings) :
        LET blocks == Get(ubd, offering.meetings[i].day)
        IN \E k \in 1..Len(blocks) :
              conflicts_with_unavailable(offering.meetings[i], blocks[k][1], blocks[k][2])[1]

\* sum(o.credits for o in current_schedule if o.credits is not None)
TotalCredits(schedule) ==
    SumSeq([i \in 1..Len(schedule) |->
              IF IsNone(schedule[i].credits) THEN 0 ELSE Val(schedule[i].credits)])

\* the two credit checks of the base case: TRUE iff the leaf is abandoned
CreditsRejected(req, total_credits) ==
    \/ TruthyNum(req.min_credits) /\ total_credits < Val(req.min_credits)
    \/ TruthyNum(req.max_credits) /\ total_credits > Val(req.max_credits)

\* the signature built from the offerings where line 181 takes their CRNs
SignatureOfOfferings(schedule) == {schedule[i] : i \in 1..Len(schedule)}

\* frozenset(o.crn for o in current_schedule)
Signature(schedule) == {schedule[i].crn : i \in 1..Len(schedule)}

(***************************************************************************)
(* solver.py: scoring                                                      *)
(***************************************************************************)
\* (start_min, end_min) pairs of the meetings of one day, in schedule order
RECURSIVE MeetingsOfDay(_, _)
MeetingsOfDay(meetings, d) ==
    IF meetings = <<>> THEN <<>>
    ELSE IF meetings[1].day = d
         THEN <<(<<meetings[1].start_min, meetings[1].end_min>>)>> \o MeetingsOfDay(Tail(meetings), d)
         ELSE MeetingsOfDay(Tail(meetings), d)

RECURSIVE AllMeetings(_)
AllMeetings(schedule) ==
    IF schedule = <<>> THEN <<>>
    ELSE schedule[1].meetings \o AllMeetings(Tail(schedule))

\* tuple order of Python: by start, then by end
PairLeq(a, b) == a[1] < b[1] \/ (a[1] = b[1] /\ a[2] <= b[2])

RECURSIVE InsertPair(_, _)
InsertPair(sorted, x) ==
    IF sorted = <<>> THEN <<x>>
    ELSE IF PairLeq(sorted[1], x) THEN <<sorted[1]>> \o InsertPair(Tail(sorted), x)
    ELSE <<x>> \o sorted

RECURSIVE SortedPairs(_)
SortedPairs(s) ==
    IF s = <<>> THEN <<>> ELSE InsertPair(SortedPairs(Front(s)), s[Len(s)])

\* what one gap adds to total_gap
GapCost(gap, max_gap) ==
    IF gap > 0
    THEN IF TruthyNum(max_gap) /\ gap > Val(max_gap) THEN gap * 10 ELSE gap
    ELSE 0

\* the inner loop of _compute_total_gaps for one day
DayGaps(pairs, max_gap) ==
    IF Len(pairs) <= 1 THEN 0
    ELSE LET ms == SortedPairs(pairs)
         IN SumSeq([i \in 1..(Len(ms) - 1) |-> GapCost(ms[i + 1][1] - ms[i][2], max_gap)])

RECURSIVE SumOverDays(_, _, _)
SumOverDays(days, meetings, max_gap) ==
    IF days = {} THEN 0
    ELSE LET d == CHOOSE x \in days : TRUE
         IN DayGaps(MeetingsOfDay(meetings, d), max_gap)
              + SumOverDays(days \ {d}, meetings, max_gap)

_compute_total_gaps(schedule, filters) ==
    SumOverDays(DayOfWeek, AllMeetings(schedule), filters.max_gap_min)

\* instructor_bonus
InstructorBonus(schedule, filters) ==
    LET prefer == IF IsNone(filters.prefer_instructors) THEN <<>>
                  ELSE Val(filters.prefer_instructors)
    IN SumSeq([i \in 1..Len(schedule) |->
                 IF /\ TruthySeq(schedule[i].instructor)
                    /\ prefer # <<>>
                    /\ AnyContainedIn(prefer, Val(schedule[i].instructor))
                 THEN 1 ELSE 0])

\* sum(offering.seats_available or 0 for offering in schedule)
TotalSeats(schedule) ==
    SumSeq([i \in 1..Len(schedule) |->
              IF IsNone(seats_available(schedule[i])) THEN 0
              ELSE Val(seats_available(schedule[i]))])

\* int(o.crn) if o.crn.isdigit() else hash(o.crn); hashes is hash() of this process
CrnVal(crn, hashes) == IF isdigit(crn) THEN IntOf(crn) ELSE hashes[crn]

\* _compute_score raises (the int() of line 278 fails)
ScoreRaises(schedule) ==
    \E i \in 1..Len(schedule) : isdigit(schedule[i].crn) /\ IntRaises(schedule[i].crn)

CrnSum(schedule, hashes) ==
    SumSeq([i \in 1..Len(schedule) |-> CrnVal(schedule[i].crn, hashes)])

\* the remainder of line 279 taken as C and Java take it (sign of the dividend)
TieBreakTruncated(schedule, hashes) ==
    LET crn_sum == CrnSum(schedule, hashes)
    IN IF crn_sum < 0 THEN 0 - ((0 - crn_sum) % 1000) ELSE crn_sum % 1000

\* (crn_sum % 1000) * 0.001, times 1000; Python's % takes the sign of the divisor
TieBreak(schedule, hashes) == CrnSum(schedule, hashes) % 1000

\* _compute_score, times 1000
_compute_score(schedule, filters, hashes) ==
    _compute_total_gaps(schedule, filters) * 1000000
      - InstructorBonus(schedule, filters) * 100000
      - TotalSeats(schedule) * 1000
      + TieBreak(schedule, hashes)

(***************************************************************************)
(* The inputs the model draws: catalogs and requests.                      *)
(***************************************************************************)
Offering(crn, ck, section, meetings, status, capacity, enrolled, instructor, delivery, credits) ==
    [crn |-> crn, course_key |-> ck, section |-> section, meetings |-> meetings,
     status |-> status, capacity |-> capacity, enrolled |-> enrolled,
     instructor |-> instructor, delivery |-> delivery, credits |-> credits]

CKB == <<"C", "K", "B">>

LEE == <<"L", "e", "e">>

KIM == <<"K", "i", "m">>

\* The sections a catalog of the model is made of.
\*  1, 2: two sections of CS 100 that do not overlap (10 minutes apart)
\*  3: MATH 111 starting the minute section 1 ends, overlapping section 2
\*  4: MATH 111 with a CRN that is not numeric, fewer seats taken than enrolled
\*  5: a second row with the CRN of section 1, no meetings, other credits
\*  6: a closed MATH 111 section whose CRN is the superscript digit
Pool ==
    <<Offering(<<"1","0","1">>, "CS 100", <<"0","0","1">>,
               <<Meeting("Mon", 540, 590, Some(CKB))>>,
               "Open", Some(40), Some(30), Some(LEE), "In-Person", Some(3)),
      Offering(<<"1","0","2">>, "CS 100", <<"h","0","2">>,
               <<Meeting("Mon", 600, 650, None)>>,
               "Open", None, None, None, "Online", None),
      Offering(<<"2","0","1">>, "MATH 111", <<"0","0","1">>,
               <<Meeting("Mon", 590, 640, Some(CKB))>>,
               "Open", Some(50), Some(45), Some(KIM), "In-Person", Some(4)),
      Offering(<<"X","1">>, "MATH 111", <<"0","0","2">>,
               <<Meeting("Tue", 540, 590, None), Meeting("Mon", 700, 750, None)>>,
               "Open", Some(20), Some(25), Some(LEE), "Hybrid", Some(4)),
      Offering(<<"1","0","1">>, "CS 100", <<"0","0","1">>,
               <<>>,
               "Open", Some(40), Some(38), None, "In-Person", Some(4)),
      Offering(<<"SUP2">>, "MATH 111", <<"0","0","3">>,
               <<Meeting("Wed", 540, 590, None)>>,
               "Closed", Some(30), Some(30), Some(KIM), "In-Person", Some(4))>>

IsInjective(f) == \A i, j \in DOMAIN f : f[i] = f[j] => i = j

\* catalogs: up to MaxCatalog different sections of the pool, in any order
CatalogSet ==
    {[i \in DOMAIN ix |-> Pool[ix[i]]] :
        ix \in {f \in UNION {[1..n -> DOMAIN Pool] : n \in 0..MaxCatalog} : IsInjective(f)}}

CourseKeys == {"CS 100", "MATH 111"}

\* required_course_keys: min_length 1; a key may be named twice
KeySeqs == UNION {[1..n -> CourseKeys] : n \in 1..MaxRequired}

\* <<min_credits, max_credits>>
CreditWindows ==
    {<<None, None>>, <<Some(0), None>>, <<None, Some(0)>>, <<Some(4), None>>,
     <<Some(4), Some(7)>>}

UnavailableChoices ==
    {<<>>,
     <<AvailabilityBlock("Mon", 540, 600)>>,
     <<AvailabilityBlock("Mon", 600, 600), AvailabilityBlock("Tue", 0, 1440)>>}

\* max_results (1..2000 in the request model); the model finds at most
\* MaxCatalog schedules, so 1 and 2 cut the result list and a larger value does not
MaxResultsChoices == {1, 2}

FilterChoices ==
    {DefaultFilters,
     [DefaultFilters EXCEPT !.max_gap_min = Some(60),
                            !.prefer_instructors = Some(<< <<"k", "i", "m">> >>)],
     [DefaultFilters EXCEPT !.status = {"Open", "Closed"}, !.include_honors = FALSE]}

\* requests: every choice of keys and max_results, with at most one of the
\* credit window, the unavailable blocks and the filters away from its default
RequestSet ==
    {r \in {SolveRequest(k, w[1], w[2], u, f, n) :
              k \in KeySeqs, w \in CreditWindows, u \in UnavailableChoices,
              f \in FilterChoices, n \in MaxResultsChoices} :
        Cardinality({x \in {1, 2, 3} :
            \/ x = 1 /\ <<r.min_credits, r.max_credits>> # <<None, None>>
            \/ x = 2 /\ r.unavailable # <<>>
            \/ x = 3 /\ r.filters # DefaultFilters}) <= 1}

\* the CRNs of a catalog that hash() can be asked for
TextCrns(cat) == {cat[i].crn : i \in {j \in 1..Len(cat) : ~isdigit(cat[j].crn)}}

(***************************************************************************)
(* State.                                                                  *)
(***************************************************************************)
VARIABLES
    catalog,              \* main.py: the in-memory catalog, the solver's catalog
    request,              \* the SolveRequest of the call
    entry,                \* "lib": solve_schedules is called; "http": POST /solve
    hashes,               \* hash() of this process on the CRNs that are not numeric
    pc,                   \* where the call is
    offerings_by_course,  \* ScheduleSolver.offerings_by_course
    unavailable_by_day,   \* ScheduleSolver.unavailable_by_day
    required_courses,     \* solve: the required keys in search order
    stack,                \* the active _backtrack calls: course_idx and next loop index
    current_schedule,     \* the list all _backtrack calls share
    results,              \* ScheduleSolver.results
    seen_signatures,      \* ScheduleSolver.seen_signatures
    returned,             \* what solve_schedules returned, None before
    raised,               \* an exception left solve_schedules
    response,             \* the answer of POST /solve
    bt_calls,             \* number of _backtrack calls made so far
    visits,               \* number of candidates the loop of _backtrack took up
    run,                  \* 1: first invocation, 2: the same call in a new process
    prev_returned,        \* what the first invocation returned
    call,                 \* a function or a service called on its own: its name and
                          \* its arguments
    ret,                  \* what that call returned, None before
    usage_storage,        \* rate_limiter.py: usage_storage, None for an IP without entry
    global_usage,         \* rate_limiter.py: global_usage["total_count"]
    now,                  \* datetime.now(), in hours
    requests              \* the /ai/parse-schedule requests made so far

vars == <<catalog, request, entry, hashes, pc, offerings_by_course, unavailable_by_day,
          required_courses, stack, current_schedule, results, seen_signatures,
          returned, raised, response, bt_calls, visits, run, prev_returned, call, ret,
          usage_storage, global_usage, now, requests>>

\* the variables of the rate limiter and of the requests it is asked about
limiterVars == <<usage_storage, global_usage, now, requests>>

\* the variables of a call of the solver
solveVars == <<catalog, request, entry, hashes, pc, offerings_by_course,
               unavailable_by_day, required_courses, stack, current_schedule, results,
               seen_signatures, returned, raised, response, bt_calls, visits, run,
               prev_returned>>

solverVars == <<offerings_by_course, unavailable_by_day, required_courses, stack,
                current_schedule, results, seen_signatures, bt_calls, visits>>

NoResponse == [kind |-> "none", status |-> 0, schedules |-> <<>>, count |-> 0,
               catalog_course_count |-> 0, catalog_section_count |-> 0]

\* raise HTTPException(status_code=...)
ErrorResponse(code) == [NoResponse EXCEPT !.kind = "error", !.status = code]

\* SolveResponse(...)
SolveResponse(schedules, cat) ==
    [kind |-> "ok", status |-> 200, schedules |-> schedules, count |-> Len(schedules),
     catalog_course_count |-> Cardinality({cat[i].course_key : i \in 1..Len(cat)}),
     catalog_section_count |-> Len(cat)]

FreshSolver ==
    /\ offerings_by_course = <<>>
    /\ unavailable_by_day = <<>>
    /\ required_courses = <<>>
    /\ stack = <<>>
    /\ current_schedule = <<>>
    /\ results = <<>>
    /\ seen_signatures = {}
    /\ bt_calls = 0
    /\ visits = 0

\* no function is called on its own
NoCall ==
    /\ call = [fn |-> "none", args |-> <<>>]
    /\ ret = None

\* rate_limiter.py as the module is loaded, and no request made
NoLimiter ==
    /\ usage_storage = <<>>
    /\ global_usage = 0
    /\ now = 0
    /\ requests = <<>>

\* no call of the solver is under way
NoSolve ==
    /\ catalog = <<>>
    /\ request = SolveRequest(<<"CS 100">>, None, None, <<>>, DefaultFilters, 1)
    /\ entry = "lib"
    /\ hashes = <<>>
    /\ pc = "idle"
    /\ FreshSolver
    /\ returned = None
    /\ raised = FALSE
    /\ response = NoResponse
    /\ run = 1
    /\ prev_returned = None

Init ==
    /\ catalog \in CatalogSet
    /\ request \in RequestSet
    /\ entry \in {"lib", "http"}
    /\ hashes \in [TextCrns(catalog) -> HashValues]
    /\ pc = "request"
    /\ FreshSolver
    /\ returned = None
    /\ raised = FALSE
    /\ response = NoResponse
    /\ run = 1
    /\ prev_returned = None
    /\ NoCall
    /\ NoLimiter

(***************************************************************************)
(* main.py: POST /solve, the validation before the solver is called.       *)
(***************************************************************************)
\* [ck for ck in request.required_course_keys if ck not in catalog_course_keys]
MissingKeys(cat, req) ==
    FilterSeq(req.required_course_keys,
              {ck \in SeqRange(req.required_course_keys) :
                  ck \notin {cat[i].course_key : i \in 1..Len(cat)}})

Validate ==
    /\ pc = "request"
    /\ entry = "http"
    /\ IF catalog = <<>> \/ MissingKeys(catalog, request) # <<>>
       THEN /\ response' = ErrorResponse(400)
            /\ pc' = "done"
       ELSE /\ pc' = "validated"
            /\ UNCHANGED response
    /\ UNCHANGED <<limiterVars, call, ret, catalog, request, entry, hashes, solverVars, returned, raised,
                   run, prev_returned>>

(***************************************************************************)
(* solver.py: solve_schedules = ScheduleSolver(catalog, request).solve()   *)
(***************************************************************************)
\* ScheduleSolver.__init__
Construct ==
    /\ \/ pc = "request" /\ entry = "lib"
       \/ pc = "validated"
    /\ offerings_by_course' = _prefilter_offerings(GroupByCourse(catalog), request.filters)
    /\ unavailable_by_day' = BuildUnavailableByDay(request.unavailable)
    /\ results' = <<>>
    /\ seen_signatures' = {}
    /\ pc' = "constructed"
    /\ UNCHANGED <<limiterVars, call, ret, catalog, request, entry, hashes, required_courses, stack,
                   current_schedule, returned, raised, response, bt_calls, visits,
                   run, prev_returned>>

\* sorted(required_course_keys, key=number of candidates)
OrderCourses(obc, keys) ==
    SortedStable(keys, [ck \in SeqRange(keys) |-> Len(Get(obc, ck))])

\* the check of lines 145-148 made for the last course of the order only
HasEmptyCourseLastOnly(obc, courses) ==
    Get(obc, courses[Len(courses)]) = <<>>

\* some required course has no valid offerings
HasEmptyCourse(obc, courses) ==
    \E i \in 1..Len(courses) : Get(obc, courses[i]) = <<>>

Frame(idx, i) == [course_idx |-> idx, i |-> i]

\* solve, up to the first _backtrack call
SolveStart ==
    /\ pc = "constructed"
    /\ required_courses' = OrderCourses(offerings_by_course, request.required_course_keys)
    /\ IF HasEmptyCourse(offerings_by_course, required_courses')
       THEN /\ returned' = Some(<<>>)
            /\ pc' = "returned"
            /\ UNCHANGED <<stack, bt_calls>>
       ELSE /\ stack' = <<Frame(0, 1)>>
            /\ bt_calls' = bt_calls + 1
            /\ pc' = "search"
            /\ UNCHANGED returned
    /\ UNCHANGED <<limiterVars, call, ret, catalog, request, entry, hashes, offerings_by_course,
                   unavailable_by_day, current_schedule, results, seen_signatures,
                   raised, response, visits, run, prev_returned>>

Top == stack[Len(stack)]

\* the candidates of the _backtrack call on top of the stack
TopOfferings == Get(offerings_by_course, required_courses[Top.course_idx + 1])

\* a _backtrack call returns to its caller: the caller, if it is a _backtrack
\* call, pops the offering it had appended (line 218); solve goes on otherwise
ReturnToCaller ==
    /\ stack' = Front(stack)
    /\ current_schedule' = IF Len(stack) > 1 THEN Front(current_schedule)
                           ELSE current_schedule
    /\ pc' = IF Len(stack) > 1 THEN "search" ELSE "backtracked"

\* _backtrack, base case.  The test of line 197 (len(results) >= 2 * max_results)
\* chooses between two `return` statements, so it changes nothing.
Leaf ==
    /\ pc = "search"
    /\ Top.course_idx >= Len(required_courses)
    /\ LET total_credits == TotalCredits(current_schedule)
           sig == Signature(current_schedule)
       IN IF CreditsRejected(request, total_credits) \/ sig \in seen_signatures
          THEN /\ ReturnToCaller
               /\ UNCHANGED <<results, seen_signatures, raised, response>>
          ELSE IF ScoreRaises(current_schedule)
          THEN /\ seen_signatures' = seen_signatures \cup {sig}
               /\ raised' = TRUE
               /\ response' = IF entry = "http" THEN ErrorResponse(500) ELSE response
               /\ pc' = "done"
               /\ UNCHANGED <<results, stack, current_schedule>>
          ELSE /\ seen_signatures' = seen_signatures \cup {sig}
               /\ results' = Append(results,
                      Schedule(current_schedule, total_credits,
                               _compute_score(current_schedule, request.filters, hashes)))
               /\ ReturnToCaller
               /\ UNCHANGED <<raised, response>>
    /\ UNCHANGED <<limiterVars, call, ret, catalog, request, entry, hashes, offerings_by_course,
                   unavailable_by_day, required_courses, returned, bt_calls, visits,
                   run, prev_returned>>

\* the candidate is rejected by one of the two checks of the loop
Rejected(offering, schedule, ubd) ==
    _has_conflict(offering, schedule) \/ _conflicts_with_availability(offering, ubd)

\* _backtrack, one turn of the loop that ends in `continue`
SkipCandidate ==
    /\ pc = "search"
    /\ Top.course_idx < Len(required_courses)
    /\ Top.i <= Len(TopOfferings)
    /\ Rejected(TopOfferings[Top.i], current_schedule, unavailable_by_day)
    /\ stack' = [stack EXCEPT ![Len(stack)].i = Top.i + 1]
    /\ visits' = visits + 1
    /\ UNCHANGED <<limiterVars, call, ret, catalog, request, entry, hashes, pc, offerings_by_course,
                   unavailable_by_day, required_courses, current_schedule, results,
                   seen_signatures, returned, raised, response, bt_calls,
                   run, prev_returned>>

\* _backtrack, one turn of the loop that appends the candidate and recurses
PlaceCandidate ==
    /\ pc = "search"
    /\ Top.course_idx < Len(required_courses)
    /\ Top.i <= Len(TopOfferings)
    /\ ~Rejected(TopOfferings[Top.i], current_schedule, unavailable_by_day)
    /\ current_schedule' = Append(current_schedule, TopOfferings[Top.i])
    /\ stack' = Append([stack EXCEPT ![Len(stack)].i = Top.i + 1],
                       Frame(Top.course_idx + 1, 1))
    /\ bt_calls' = bt_calls + 1
    /\ visits' = visits + 1
    /\ UNCHANGED <<limiterVars, call, ret, catalog, request, entry, hashes, pc, offerings_by_course,
                   unavailable_by_day, required_courses, results, seen_signatures,
                   returned, raised, response, run, prev_returned>>

\* _backtrack, the loop is over
LoopEnd ==
    /\ pc = "search"
    /\ Top.course_idx < Len(required_courses)
    /\ Top.i > Len(TopOfferings)
    /\ ReturnToCaller
    /\ UNCHANGED <<limiterVars, call, ret, catalog, request, entry, hashes, offerings_by_course,
                   unavailable_by_day, required_courses, results, seen_signatures,
                   returned, raised, response, bt_calls, visits, run, prev_returned>>

\* the sort of line 154 with reverse=True
SortResultsDescending(res) == SortedStable(res, [x \in SeqRange(res) |-> 0 - x.score])

\* self.results.sort(key=lambda s: s.score)
SortResults(res) == SortedStable(res, [x \in SeqRange(res) |-> x.score])

\* self.results[: max_results]
Truncate(res, n) == SubSeq(res, 1, Min2(n, Len(res)))

\* solve, after the search
SolveFinish ==
    /\ pc = "backtracked"
    /\ results' = SortResults(results)
    /\ returned' = Some(Truncate(results', request.max_results))
    /\ pc' = "returned"
    /\ UNCHANGED <<limiterVars, call, ret, catalog, request, entry, hashes, offerings_by_course,
                   unavailable_by_day, required_courses, stack, current_schedule,
                   seen_signatures, raised, response, bt_calls, visits,
                   run, prev_returned>>

\* main.py: POST /solve, the response after solve_schedules returned
Respond ==
    /\ pc = "returned"
    /\ entry = "http"
    /\ response' = SolveResponse(Val(returned), catalog)
    /\ pc' = "done"
    /\ UNCHANGED <<limiterVars, call, ret, catalog, request, entry, hashes, solverVars, returned, raised,
                   run, prev_returned>>

\* the same call made again in a new process: a fresh solver on the same
\* catalog and request, and hash() with the salt of the new process
Restart ==
    /\ pc = "returned"
    /\ entry = "lib"
    /\ run = 1
    /\ run' = 2
    /\ prev_returned' = returned
    /\ hashes' \in [TextCrns(catalog) -> HashValues]
    /\ pc' = "request"
    /\ offerings_by_course' = <<>>
    /\ unavailable_by_day' = <<>>
    /\ required_courses' = <<>>
    /\ stack' = <<>>
    /\ current_schedule' = <<>>
    /\ results' = <<>>
    /\ seen_signatures' = {}
    /\ bt_calls' = 0
    /\ visits' = 0
    /\ returned' = None
    /\ UNCHANGED <<limiterVars, call, ret, catalog, request, entry, raised, response>>

Next ==
    \/ Validate
    \/ Construct
    \/ SolveStart
    \/ Leaf
    \/ SkipCandidate
    \/ PlaceCandidate
    \/ LoopEnd
    \/ SolveFinish
    \/ Respond

Spec == Init /\ [][Next]_vars

\* solve_schedules called directly, twice, each time in a process of its own
InitDet == Init /\ entry = "lib"

NextDet ==
    \/ Construct
    \/ SolveStart
    \/ Leaf
    \/ SkipCandidate
    \/ PlaceCandidate
    \/ LoopEnd
    \/ SolveFinish
    \/ Restart

SpecDet == InitDet /\ [][NextDet]_vars

(***************************************************************************)
(* solve_schedules under requests that differ in their filters only.       *)
(***************************************************************************)
\* the filters of a request, one group of filter fields away from its default
PreFilterChoices ==
    {DefaultFilters,
     [DefaultFilters EXCEPT !.delivery = Some(<<"Online", "Hybrid">>)],
     [DefaultFilters EXCEPT !.delivery = Some(<<>>)],
     [DefaultFilters EXCEPT !.avoid_instructors = Some(<< <<"l", "E", "E">> >>)],
     [DefaultFilters EXCEPT !.status = {"Open", "Closed"}, !.include_honors = FALSE],
     [DefaultFilters EXCEPT !.include_non_honors = FALSE],
     [DefaultFilters EXCEPT !.campus_exclude = Some(<< <<"c", "k", "b">> >>)],
     [DefaultFilters EXCEPT !.campus_include = Some(<< <<"c", "k", "b">> >>)],
     [DefaultFilters EXCEPT !.campus_include = Some(<<>>)],
     [DefaultFilters EXCEPT !.earliest_start = Some(590)],
     [DefaultFilters EXCEPT !.latest_end = Some(640)],
     [DefaultFilters EXCEPT !.latest_end = Some(0)],
     [DefaultFilters EXCEPT !.earliest_start = Some(0), !.latest_end = Some(650)]}

InitFilter ==
    /\ catalog \in CatalogSet
    /\ request \in {SolveRequest(k, None, None, <<>>, f, 2) :
                       k \in KeySeqs, f \in PreFilterChoices}
    /\ entry = "lib"
    /\ hashes \in [TextCrns(catalog) -> HashValues]
    /\ pc = "request"
    /\ FreshSolver
    /\ returned = None
    /\ raised = FALSE
    /\ response = NoResponse
    /\ run = 1
    /\ prev_returned = None
    /\ NoCall
    /\ NoLimiter

NextFilter ==
    \/ Construct
    \/ SolveStart
    \/ Leaf
    \/ SkipCandidate
    \/ PlaceCandidate
    \/ LoopEnd
    \/ SolveFinish

SpecFilter == InitFilter /\ [][NextFilter]_vars

\* One solve_schedules call that runs on: the interpreter executes the next
\* statement of the call whenever there is one.
SpecTerm == InitDet /\ [][NextFilter]_vars /\ WF_vars(NextFilter)

(***************************************************************************)
(* solve_schedules on catalogs whose schedules differ in their score terms. *)
(***************************************************************************)
\* The sections of these catalogs.
\*  1: CS 100, two Monday meetings listed later one first, 70 minutes apart
\*  2: CS 100, Monday 540-590, 10 seats
\*  3: MATH 111 starting one minute after section 2 ends, 2000 seats
\*  4: MATH 111 starting the minute section 2 ends, CRN not numeric, seats unknown
\*  5: MATH 111 on Tuesday, more enrolled than capacity
\* Sections 3 and 4 overlap the second meeting of section 1.
ScorePool ==
    <<Offering(<<"9","9","9">>, "CS 100", <<"0","0","1">>,
               <<Meeting("Mon", 600, 650, None), Meeting("Mon", 480, 530, None)>>,
               "Open", Some(40), Some(30), Some(LEE), "In-Person", Some(3)),
      Offering(<<"1","0","0","1">>, "CS 100", <<"0","0","2">>,
               <<Meeting("Mon", 540, 590, None)>>,
               "Open", Some(40), Some(30), None, "In-Person", Some(3)),
      Offering(<<"2","0","0","2">>, "MATH 111", <<"0","0","1">>,
               <<Meeting("Mon", 591, 641, None)>>,
               "Open", Some(2000), Some(0), Some(KIM), "In-Person", Some(4)),
      Offering(<<"X","1">>, "MATH 111", <<"0","0","2">>,
               <<Meeting("Mon", 590, 640, None)>>,
               "Open", None, Some(5), Some(LEE), "In-Person", Some(4)),
      Offering(<<"3","0","0","0">>, "MATH 111", <<"0","0","3">>,
               <<Meeting("Tue", 540, 590, None)>>,
               "Open", Some(20), Some(25), Some(KIM), "In-Person", Some(4))>>

ScoreCatalogSet ==
    {[i \in DOMAIN ix |-> ScorePool[ix[i]]] :
        ix \in {f \in UNION {[1..n -> DOMAIN ScorePool] : n \in 0..MaxCatalog} :
                  IsInjective(f)}}

\* the filters the score reads: max_gap_min and prefer_instructors
ScoreFilterChoices ==
    {DefaultFilters,
     [DefaultFilters EXCEPT !.max_gap_min = Some(0)],
     [DefaultFilters EXCEPT !.max_gap_min = Some(60)],
     [DefaultFilters EXCEPT !.max_gap_min = Some(1),
                            !.prefer_instructors = Some(<< <<"k", "i", "m">> >>)],
     [DefaultFilters EXCEPT !.prefer_instructors = Some(<< <<"L", "E", "E">> >>)]}

InitScore ==
    /\ catalog \in ScoreCatalogSet
    /\ request \in {SolveRequest(k, None, None, <<>>, f, n) :
                       k \in KeySeqs, f \in ScoreFilterChoices, n \in MaxResultsChoices}
    /\ entry = "lib"
    /\ hashes \in [TextCrns(catalog) -> HashValues]
    /\ pc = "request"
    /\ FreshSolver
    /\ returned = None
    /\ raised = FALSE
    /\ response = NoResponse
    /\ run = 1
    /\ prev_returned = None
    /\ NoCall
    /\ NoLimiter

SpecScore == InitScore /\ [][NextFilter]_vars

(***************************************************************************)
(* models.py: the two predicates of Meeting, each called on its own.       *)
(***************************************************************************)
\* minutes a day has (AvailabilityBlock.end_min: le=1440)
DayMinutes == 1440

\* the model takes its minutes within MaxMinute of either end of the day
MaxMinute == 2

Minutes == (0..MaxMinute) \cup ((DayMinutes - MaxMinute)..DayMinutes)

\* Meeting objects: the class states no constraint on start_min and end_min
MeetingSet ==
    {Meeting(d, s, e, None) : d \in {"Mon", "Tue"}, s \in Minutes, e \in Minutes}

\* the blocks AvailabilityBlock admits (start_min < 1440, end_min <= 1440) with
\* start_min <= end_min, taken for a meeting of the block's day
BlockCalls ==
    {[fn |-> "conflicts_with_unavailable", args |-> <<m, s, e>>] :
        m \in {x \in MeetingSet : x.day = "Mon" /\ x.start_min < x.end_min},
        s \in Minutes \ {DayMinutes}, e \in Minutes}

InitMeeting ==
    /\ NoSolve
    /\ NoLimiter
    /\ call \in {[fn |-> "overlaps", args |-> <<m, other>>] :
                    m \in MeetingSet, other \in MeetingSet}
               \cup {c \in BlockCalls : c.args[2] <= c.args[3]}
    /\ ret = None

\* m.overlaps(other)
OverlapsCall ==
    /\ call.fn = "overlaps"
    /\ ret = None
    /\ ret' = Some(overlaps(call.args[1], call.args[2]))
    /\ UNCHANGED <<limiterVars, solveVars, call>>

\* m.conflicts_with_unavailable(unavailable_start, unavailable_end)
ConflictsCall ==
    /\ call.fn = "conflicts_with_unavailable"
    /\ ret = None
    /\ ret' = Some(conflicts_with_unavailable(call.args[1], call.args[2], call.args[3]))
    /\ UNCHANGED <<limiterVars, solveVars, call>>

NextMeeting ==
    \/ OverlapsCall
    \/ ConflictsCall

SpecMeeting == InitMeeting /\ [][NextMeeting]_vars

(***************************************************************************)
(* normalizer.py: merge_offerings_by_crn and deduplicate_offerings, each   *)
(* called on its own on a list of offerings.                               *)
(***************************************************************************)
\* the values of DayOfWeek in the order Python gives strings
DayValueOrder == <<"Fri", "Mon", "Sat", "Sun", "Thu", "Tue", "Wed">>

\* key=lambda x: (x.day.value, x.start_min) as one number (start_min is a
\* minute of the day, below 10000)
MeetingSortKey(m) == IndexIn(m.day, DayValueOrder) * 10000 + m.start_min

\* (m.day, m.start_min, m.end_min)
Triple(m) == <<m.day, m.start_min, m.end_min>>

\* meeting_sig of line 306: the triples of the meetings in sorted order
MeetingSig(o) ==
    LET ms == SortedStable(o.meetings,
                           [m \in SeqRange(o.meetings) |-> MeetingSortKey(m)])
    IN [i \in 1..Len(ms) |-> Triple(ms[i])]

RECURSIVE DedupFrom(_, _, _)
\* the loop of deduplicate_offerings with its two locals
DedupFrom(seen, unique, offerings) ==
    IF offerings = <<>> THEN unique
    ELSE LET offering == Head(offerings)
             sig == <<offering.crn, MeetingSig(offering)>>
         IN IF sig \notin seen
            THEN DedupFrom(seen \cup {sig}, Append(unique, offering), Tail(offerings))
            ELSE DedupFrom(seen, unique, Tail(offerings))

deduplicate_offerings(offerings) == DedupFrom({}, <<>>, offerings)

RECURSIVE AddMeetingsAll(_, _)
\* the meetings of a later row appended whatever is present
AddMeetingsAll(existing, meetings) ==
    IF meetings = <<>> THEN existing
    ELSE AddMeetingsAll(Append(existing, Head(meetings)), Tail(meetings))

RECURSIVE AddMeetings(_, _)
\* lines 344-354: the meetings of a later row appended where no meeting of the
\* same day, start_min and end_min is present
AddMeetings(existing, meetings) ==
    IF meetings = <<>> THEN existing
    ELSE LET meeting == Head(meetings)
             meeting_exists ==
                 \E i \in 1..Len(existing) : Triple(existing[i]) = Triple(meeting)
         IN AddMeetings(IF meeting_exists THEN existing ELSE Append(existing, meeting),
                        Tail(meetings))

RECURSIVE MergeFrom(_, _)
\* the loop of merge_offerings_by_crn; crn_map is the dict as the sequence of
\* its values in insertion order
MergeFrom(crn_map, offerings) ==
    IF offerings = <<>> THEN crn_map
    ELSE LET offering == Head(offerings)
             at == {i \in 1..Len(crn_map) : crn_map[i].crn = offering.crn}
         IN IF at = {}
            THEN MergeFrom(Append(crn_map, offering), Tail(offerings))
            ELSE LET i == CHOOSE x \in at : TRUE
                 IN MergeFrom([crn_map EXCEPT
                                  ![i].meetings = AddMeetings(@, offering.meetings)],
                              Tail(offerings))

\* list(crn_map.values())
merge_offerings_by_crn(offerings) == MergeFrom(<<>>, offerings)

\* the offerings passed to merge_offerings_by_crn after the call: the first row
\* of each CRN is the object the result holds, so it has the merged meetings
AfterMerge(offerings) ==
    LET merged == merge_offerings_by_crn(offerings)
    IN [p \in 1..Len(offerings) |->
          IF \E q \in 1..(p - 1) : offerings[q].crn = offerings[p].crn
          THEN offerings[p]
          ELSE merged[CHOOSE k \in 1..Len(merged) : merged[k].crn = offerings[p].crn]]

\* an offering as normalize_csv_row builds it from one row
Row(crn, section, meetings) ==
    Offering(crn, "CS 100", section, meetings, "Open", None, None, None, "In-Person", None)

\* The rows of the lists the two functions are called on.
\*  1, 2: one CRN listed once per meeting day (Days T, then R), sections differ
\*  3, 4: that CRN with both meetings in one row, in either order
\*  5: a row whose Days names Monday twice
\*  6, 7: two meetings of one day and start and different ends, in either order
\*  8: a row without meetings (Days TBA)
RowPool ==
    <<Row(<<"1","0","1">>, <<"0","0","1">>, <<Meeting("Tue", 540, 590, None)>>),
      Row(<<"1","0","1">>, <<"0","0","2">>, <<Meeting("Thu", 540, 590, Some(CKB))>>),
      Row(<<"1","0","1">>, <<"0","0","1">>,
          <<Meeting("Tue", 540, 590, None), Meeting("Thu", 540, 590, None)>>),
      Row(<<"1","0","1">>, <<"0","0","1">>,
          <<Meeting("Thu", 540, 590, None), Meeting("Tue", 540, 590, None)>>),
      Row(<<"1","0","2">>, <<"0","0","1">>,
          <<Meeting("Mon", 540, 590, None), Meeting("Mon", 540, 590, None)>>),
      Row(<<"1","0","2">>, <<"0","0","1">>,
          <<Meeting("Mon", 540, 590, None), Meeting("Mon", 540, 600, None)>>),
      Row(<<"1","0","2">>, <<"0","0","1">>,
          <<Meeting("Mon", 540, 600, None), Meeting("Mon", 540, 590, None)>>),
      Row(<<"1","0","2">>, <<"0","0","2">>, <<>>)>>

\* longest list of offerings the model passes
MaxRows == 3

\* lists of up to MaxRows rows; a row may come twice (a file loaded twice)
RowLists ==
    {[i \in DOMAIN ix |-> RowPool[ix[i]]] :
        ix \in UNION {[1..n -> DOMAIN RowPool] : n \in 0..MaxRows}}

\* heap: the offerings passed, as they are now (args: as they were passed)
InitNorm ==
    /\ NoSolve
    /\ NoLimiter
    /\ call \in {[fn |-> f, args |-> <<rows>>, heap |-> rows] :
                    f \in {"merge_offerings_by_crn", "deduplicate_offerings",
                            "merge_then_dedup"},
                    rows \in RowLists}
    /\ ret = None

MergeCall ==
    /\ call.fn = "merge_offerings_by_crn"
    /\ ret = None
    /\ ret' = Some(merge_offerings_by_crn(call.heap))
    /\ call' = [call EXCEPT !.heap = AfterMerge(call.heap)]
    /\ UNCHANGED <<limiterVars, solveVars>>

DedupCall ==
    /\ call.fn = "deduplicate_offerings"
    /\ ret = None
    /\ ret' = Some(deduplicate_offerings(call.heap))
    /\ UNCHANGED <<limiterVars, solveVars, call>>

\* lines 375-377 of normalize_multiple_csvs: the merge, then the dedup of its
\* result
MergeThenDedupCall ==
    /\ call.fn = "merge_then_dedup"
    /\ ret = None
    /\ ret' = Some(deduplicate_offerings(merge_offerings_by_crn(call.heap)))
    /\ call' = [call EXCEPT !.heap = AfterMerge(call.heap)]
    /\ UNCHANGED <<limiterVars, solveVars>>

NextNorm ==
    \/ MergeCall
    \/ DedupCall
    \/ MergeThenDedupCall

SpecNorm == InitNorm /\ [][NextNorm]_vars

(***************************************************************************)
(* normalizer.py: parsing the cells of a row.  Text is a sequence of       *)
(* characters; the only whitespace the model's texts hold is the space.    *)
(***************************************************************************)
RECURSIVE strip(_)
\* str.strip()
strip(s) ==
    IF s # <<>> /\ s[1] = " " THEN strip(Tail(s))
    ELSE IF s # <<>> /\ s[Len(s)] = " " THEN strip(Front(s))
    ELSE s

RECURSIVE RunLen(_, _, _)
\* the length of the longest run of characters of chars that starts at
\* position i: what a greedy \s*, \d+, [A-Z]+ or [A-Z]* takes there
RunLen(s, i, chars) ==
    IF i <= Len(s) /\ s[i] \in chars THEN 1 + RunLen(s, i + 1, chars) ELSE 0

\* a cell pandas read as missing (float NaN); every other cell is text
NaN == <<"NaN">>

\* str(cell)
StrOf(cell) == IF cell = NaN THEN <<"n", "a", "n">> ELSE cell

DAY_MAP ==
    [M |-> "Mon", T |-> "Tue", W |-> "Wed", R |-> "Thu", F |-> "Fri", S |-> "Sat",
     U |-> "Sun"]

\* not text or text.strip() == "" or text.upper() == "TBA"
EmptyOrTBA(text) ==
    text = <<>> \/ strip(text) = <<>> \/ Upper(text) = <<"T", "B", "A">>

parse_days(days_str) ==
    IF EmptyOrTBA(days_str) THEN <<>>
    ELSE LET up == Upper(strip(days_str))
             known == FilterSeq(up, {c \in SeqRange(up) : c \in DOMAIN DAY_MAP})
         IN [i \in 1..Len(known) |-> DAY_MAP[known[i]]]

\* parse_time with the hour taken as it is read, whatever the meridiem
parse_time_24h(time_str) ==
    IF EmptyOrTBA(time_str) THEN None
    ELSE LET s == strip(time_str)
             D == SeqRange(DecimalChars)
             hlen == IF Len(s) >= 3 /\ s[1] \in D /\ s[2] \in D /\ s[3] = ":" THEN 2
                     ELSE IF Len(s) >= 2 /\ s[1] \in D /\ s[2] = ":" THEN 1
                     ELSE 0
             ppos == hlen + 4 + RunLen(s, hlen + 4, {" "})
         IN IF /\ hlen > 0
               /\ Len(s) >= ppos + 1
               /\ s[hlen + 2] \in D
               /\ s[hlen + 3] \in D
               /\ SubSeq(s, ppos, ppos + 1) \in
                     {<<"A", "M">>, <<"P", "M">>, <<"a", "m">>, <<"p", "m">>}
            THEN Some(IntOf(SubSeq(s, 1, hlen)) * 60 + IntOf(SubSeq(s, hlen + 2, hlen + 3)))
            ELSE None

\* parse_time: re.match of (\d{1,2}):(\d{2})\s*(AM|PM|am|pm) on the stripped
\* text, then the hour by the meridiem
parse_time(time_str) ==
    IF EmptyOrTBA(time_str) THEN None
    ELSE LET s == strip(time_str)
             D == SeqRange(DecimalChars)
             hlen == IF Len(s) >= 3 /\ s[1] \in D /\ s[2] \in D /\ s[3] = ":" THEN 2
                     ELSE IF Len(s) >= 2 /\ s[1] \in D /\ s[2] = ":" THEN 1
                     ELSE 0
             ppos == hlen + 4 + RunLen(s, hlen + 4, {" "})
             hour == IntOf(SubSeq(s, 1, hlen))
             minute == IntOf(SubSeq(s, hlen + 2, hlen + 3))
             period == Upper(SubSeq(s, ppos, ppos + 1))
         IN IF /\ hlen > 0
               /\ Len(s) >= ppos + 1
               /\ s[hlen + 2] \in D
               /\ s[hlen + 3] \in D
               /\ SubSeq(s, ppos, ppos + 1) \in
                     {<<"A", "M">>, <<"P", "M">>, <<"a", "m">>, <<"p", "m">>}
            THEN Some((IF period = <<"P", "M">> /\ hour # 12 THEN hour + 12
                       ELSE IF period = <<"A", "M">> /\ hour = 12 THEN 0
                       ELSE hour) * 60 + minute)
            ELSE None

\* parse_times: <<start, end>>.  re.split of \s*-\s*|\s+to\s+ with maxsplit=1
\* cuts at the leftmost position where one of the two separators starts.
parse_times(times_str) ==
    IF EmptyOrTBA(times_str) THEN <<None, None>>
    ELSE LET s == strip(times_str)
             sp(i) == RunLen(s, i, {" "})
             Dash(i) == i + sp(i) <= Len(s) /\ s[i + sp(i)] = "-"
             To(i) == /\ sp(i) >= 1
                      /\ i + sp(i) + 1 <= Len(s)
                      /\ SubSeq(s, i + sp(i), i + sp(i) + 1) = <<"t", "o">>
                      /\ sp(i + sp(i) + 2) >= 1
             cuts == {i \in 1..Len(s) : Dash(i) \/ To(i)}
         IN IF cuts = {} THEN <<None, None>>
            ELSE LET i == CHOOSE x \in cuts : \A y \in cuts : x <= y
                     after == IF Dash(i) THEN i + sp(i) + 1 + sp(i + sp(i) + 1)
                              ELSE i + sp(i) + 2 + sp(i + sp(i) + 2)
                 IN <<parse_time(SubSeq(s, 1, i - 1)),
                      parse_time(SubSeq(s, after, Len(s)))>>

\* extract_course_key: re.match of ([A-Z]+)\s*(\d+)([A-Z]*) on the stripped,
\* upper-cased text
extract_course_key(course_str) ==
    IF course_str = <<>> THEN <<>>
    ELSE LET u == Upper(strip(course_str))
             A == SeqRange(UpperAlpha)
             n1 == RunLen(u, 1, A)
             n2 == RunLen(u, n1 + 1, {" "})
             n3 == RunLen(u, n1 + n2 + 1, SeqRange(DecimalChars))
             n4 == RunLen(u, n1 + n2 + n3 + 1, A)
         IN IF n1 >= 1 /\ n3 >= 1
            THEN SubSeq(u, 1, n1) \o <<" ">>
                   \o SubSeq(u, n1 + n2 + 1, n1 + n2 + n3 + n4)
            ELSE u

\* A row of a file as pandas hands it over: the cells CRN, Course, Days, Times
\* and Max, each a text or NaN.  The other columns are the same in every row
\* (Section "001", Status "Open", Delivery Mode "In-Person", no Location, Now,
\* Instructor or Credits).
CsvRow(crn, course, days, times, max) ==
    [CRN |-> crn, Course |-> course, Days |-> days, Times |-> times, Max |-> max]

\* lines 198-200 and 209-211: the CRN and the course key of a row
RowCrn(row) == strip(StrOf(row.CRN))

RowCourseKey(row) == extract_course_key(strip(StrOf(row.Course)))

\* lines 238-239: int(max_cap) is evaluated and raises
CapacityRaises(row) ==
    row.Max # NaN /\ strip(StrOf(row.Max)) # <<>> /\ IntRaises(StrOf(row.Max))

\* lines 214-233: the meetings list of a row
RowMeetings(row) ==
    LET days == parse_days(strip(StrOf(row.Days)))
        times == parse_times(strip(StrOf(row.Times)))
    IN IF days # <<>> /\ times[1] # None /\ times[2] # None
       THEN [i \in 1..Len(days) |-> Meeting(days[i], times[1][1], times[2][1], None)]
       ELSE <<>>

\* normalize_csv_row: Some(offering), or None where the code returns None
normalize_csv_row(row) ==
    IF RowCrn(row) = <<>> THEN None
    ELSE IF RowCourseKey(row) = <<>> THEN None
    ELSE IF CapacityRaises(row) THEN None
    ELSE Some(Offering(RowCrn(row), RowCourseKey(row), <<"0", "0", "1">>,
                       RowMeetings(row), "Open",
                       IF row.Max # NaN /\ strip(StrOf(row.Max)) # <<>>
                       THEN Some(IntOf(StrOf(row.Max))) ELSE None,
                       None, None, "In-Person", None))

RECURSIVE normalize_csv(_)
\* normalize_csv on the rows pd.read_csv returned
normalize_csv(rows) ==
    IF rows = <<>> THEN <<>>
    ELSE LET offering == normalize_csv_row(Head(rows))
         IN (IF offering # None THEN <<offering[1]>> ELSE <<>>)
              \o normalize_csv(Tail(rows))

RECURSIVE ConcatFiles(_)
\* lines 370-373: all_offerings
ConcatFiles(files) ==
    IF files = <<>> THEN <<>> ELSE normalize_csv(Head(files)) \o ConcatFiles(Tail(files))

normalize_multiple_csvs(files) ==
    deduplicate_offerings(merge_offerings_by_crn(ConcatFiles(files)))

(***************************************************************************)
(* Calls of the parsing functions and of the normalizer on rows.           *)
(***************************************************************************)
MaxCsvRows == 2

Digit(n) == DecimalChars[n + 1]

\* the text of a time: the hour in one or two digits, a colon, two minute
\* digits, sep and the meridiem
TimeText(h, mm, sep, meridiem) ==
    (IF h < 10 THEN <<Digit(h)>> ELSE <<Digit(h \div 10), Digit(h % 10)>>)
      \o <<":", Digit(mm \div 10), Digit(mm % 10)>> \o sep \o meridiem

Meridiems == {<<"A", "M">>, <<"P", "M">>, <<"a", "m">>, <<"p", "m">>}

\* texts parse_time is called on: every hour of one or two digits that the
\* tests and the catalog files use or could hold, every minute, and texts that
\* are empty, blank, TBA or not a time
TimeTexts ==
    {TimeText(h, mm, sep, mer) :
        h \in 0..13, mm \in 0..59, sep \in {<<>>, <<" ">>}, mer \in Meridiems}
      \cup {TimeText(h, mm, <<" ">>, <<"P", "M">>) : h \in {23, 99}, mm \in {0, 59, 99}}
      \cup {<<>>, <<" ">>, <<"T", "B", "A">>, <<"t", "b", "a">>, <<"9", "a", "m">>,
            <<"n", "a", "n">>, <<" ">> \o TimeText(8, 30, <<" ">>, <<"A", "M">>)}

\* the sides of the ranges parse_times is called on
RangeSides ==
    {TimeText(9, 0, <<" ">>, <<"A", "M">>), TimeText(9, 50, <<>>, <<"a", "m">>),
     TimeText(12, 0, <<" ">>, <<"P", "M">>), TimeText(12, 0, <<" ">>, <<"A", "M">>),
     TimeText(11, 59, <<" ">>, <<"p", "m">>), TimeText(13, 0, <<" ">>, <<"P", "M">>),
     TimeText(9, 75, <<" ">>, <<"A", "M">>), <<"9", "a", "m">>}

Separators == {<<"-">>, <<" ", "-", " ">>, <<" ", "t", "o", " ">>}

RangeTexts ==
    {a \o sep \o b : a \in RangeSides, sep \in Separators, b \in RangeSides}
      \cup {<<>>, <<" ">>, <<"T", "B", "A">>, <<"t", "b", "a">>, <<"n", "a", "n">>,
            TimeText(9, 0, <<" ">>, <<"A", "M">>)}

CRN101 == <<"1", "0", "1">>

CRN102 == <<"1", "0", "2">>

CS100 == <<"C", "S", "1", "0", "0">>

Range9 == TimeText(9, 0, <<" ">>, <<"A", "M">>) \o <<" ", "-", " ">>
            \o TimeText(9, 50, <<" ">>, <<"A", "M">>)

Range12 == TimeText(12, 0, <<" ">>, <<"P", "M">>) \o <<" ", "t", "o", " ">>
             \o TimeText(12, 50, <<" ">>, <<"P", "M">>)

\* The rows of the files.
\*  1, 2: one CRN on two rows (Days TR, then M at another time)
\*  3: the CRN cell is the empty text;  4: the CRN cell is missing (NaN)
\*  5: the Course cell is the empty text;  6: the Course cell is missing
\*  7: Days and Times TBA, Max missing;  8: Days and Times missing
\*  9: Times is not a time range;  10: Days names no day
\*  11: Max is not a number
\*  12: Times is a range whose start is after its end
CsvRowPool ==
    <<CsvRow(CRN101, CS100, <<"T", "R">>, Range9, <<"4", "0">>),
      CsvRow(CRN101, CS100, <<"M">>, Range12, <<"4", "0">>),
      CsvRow(<<>>, CS100, <<"M">>, Range9, <<"4", "0">>),
      CsvRow(NaN, CS100, <<"M">>, Range9, <<"4", "0">>),
      CsvRow(CRN102, <<>>, <<"M">>, Range9, <<"4", "0">>),
      CsvRow(CRN102, NaN, <<"M">>, Range9, <<"4", "0">>),
      CsvRow(CRN102, <<"c", "s", " ", "1", "0", "0">>, <<"T", "B", "A">>,
             <<"T", "B", "A">>, NaN),
      CsvRow(CRN102, CS100, NaN, NaN, <<"4", "0">>),
      CsvRow(CRN102, CS100, <<"M">>, <<"9", "a", "m", "-", "1", "0", "a", "m">>, <<"4", "0">>),
      CsvRow(CRN102, CS100, <<"X">>, Range9, <<"4", "0">>),
      CsvRow(CRN102, CS100, <<"m", "w">>, Range9, <<"a", "b", "c">>),
      CsvRow(CRN102, CS100, <<"M">>,
             TimeText(10, 0, <<" ">>, <<"A", "M">>) \o <<"-">>
               \o TimeText(9, 0, <<" ">>, <<"A", "M">>), <<>>)>>

CsvRowLists ==
    UNION {[1..n -> SeqRange(CsvRowPool)] : n \in 0..MaxCsvRows}

\* a file of one row whose Times cell is one of the range texts
RangeFiles == {<<CsvRow(CRN101, CS100, <<"M", "W">>, t, <<"4", "0">>)>> : t \in RangeTexts}

\* the files of a directory: the rows of a list cut into two files
SplitFiles ==
    UNION {{<<SubSeq(rows, 1, k), SubSeq(rows, k + 1, Len(rows))>> : k \in 0..Len(rows)} :
              rows \in CsvRowLists}
      \cup {<<f>> : f \in RangeFiles}

CsvCall(fn, arg) == [fn |-> fn, args |-> <<arg>>]

InitCsv ==
    /\ NoSolve
    /\ NoLimiter
    /\ call \in {CsvCall("parse_time", t) : t \in TimeTexts}
                \cup {CsvCall("parse_times", t) : t \in RangeTexts}
                \cup {CsvCall("normalize_csv", rows) : rows \in CsvRowLists \cup RangeFiles}
                \cup {CsvCall("normalize_multiple_csvs", files) : files \in SplitFiles}
    /\ ret = None

ParseTimeCall ==
    /\ call.fn = "parse_time"
    /\ ret = None
    /\ ret' = Some(parse_time(call.args[1]))
    /\ UNCHANGED <<limiterVars, solveVars, call>>

ParseTimesCall ==
    /\ call.fn = "parse_times"
    /\ ret = None
    /\ ret' = Some(parse_times(call.args[1]))
    /\ UNCHANGED <<limiterVars, solveVars, call>>

NormalizeCsvCall ==
    /\ call.fn = "normalize_csv"
    /\ ret = None
    /\ ret' = Some(normalize_csv(call.args[1]))
    /\ UNCHANGED <<limiterVars, solveVars, call>>

NormalizeMultipleCall ==
    /\ call.fn = "normalize_multiple_csvs"
    /\ ret = None
    /\ ret' = Some(normalize_multiple_csvs(call.args[1]))
    /\ UNCHANGED <<limiterVars, solveVars, call>>

NextCsv ==
    \/ ParseTimeCall
    \/ ParseTimesCall
    \/ NormalizeCsvCall
    \/ NormalizeMultipleCall

SpecCsv == InitCsv /\ [][NextCsv]_vars

(***************************************************************************)
(* main.py: the two ways the catalog is loaded.  The server starts, loads   *)
(* the files of the courseschedules directory, and then serves the         *)
(* /ingest/csv requests one after the other (the handler has no await       *)
(* between reading the catalog and appending to it).                       *)
(***************************************************************************)
\* ingest_csv, lines 119-126 with every offering appended
AppendAll(cat, new_offerings) == cat \o new_offerings

RECURSIVE AddToCatalog(_, _)
\* ingest_csv, lines 119-126: the offerings whose CRN the catalog does not hold
\* yet are appended
AddToCatalog(cat, new_offerings) ==
    IF new_offerings = <<>> THEN cat
    ELSE AddToCatalog(IF \E i \in 1..Len(cat) : cat[i].crn = Head(new_offerings).crn
                      THEN cat
                      ELSE Append(cat, Head(new_offerings)),
                      Tail(new_offerings))

\* The files: rows of CsvRowPool.  One CRN on two rows of one file and on rows
\* of two files, a CRN cell that is missing, a section without meetings, a
\* file without rows.
LoadFiles ==
    {<<>>, <<CsvRowPool[1]>>, <<CsvRowPool[2]>>, <<CsvRowPool[1], CsvRowPool[2]>>,
     <<CsvRowPool[7]>>, <<CsvRowPool[4], CsvRowPool[12]>>}

\* an upload: the filename ends in .csv or not, and the rows of the file
Upload(csv, rows) == [csv |-> csv, rows |-> rows]

Uploads == {Upload(TRUE, f) : f \in LoadFiles} \cup {Upload(FALSE, <<CsvRowPool[1]>>)}

\* dir: the files of the directory at startup; uploads: the requests made, of
\* which the first `served` ones have been answered
InitLoad ==
    /\ NoSolve
    /\ NoLimiter
    /\ call \in {[fn |-> "serve", started |-> FALSE, dir |-> d, uploads |-> u,
                     served |-> 0] :
                    d \in {<<>>} \cup {<<f>> : f \in LoadFiles}
                            \cup {<<f, g>> : f \in LoadFiles, g \in LoadFiles},
                    u \in {<<>>} \cup {<<a>> : a \in Uploads}
                            \cup {<<a, b>> : a \in Uploads, b \in Uploads}}
    /\ ret = None

startup_event ==
    /\ call.fn = "serve"
    /\ ~call.started
    /\ catalog' = IF call.dir # <<>> THEN normalize_multiple_csvs(call.dir) ELSE catalog
    /\ call' = [call EXCEPT !.started = TRUE]
    /\ UNCHANGED <<limiterVars, ret, request, entry, hashes, pc, solverVars, returned,
                   raised, response, run, prev_returned>>

\* POST /ingest/csv with the next upload; ret is the response
ingest_csv ==
    /\ call.fn = "serve"
    /\ call.started
    /\ call.served < Len(call.uploads)
    /\ LET file == call.uploads[call.served + 1]
           new_offerings == normalize_csv(file.rows)
       IN IF ~file.csv
          THEN /\ ret' = Some([status |-> 400, added_to_catalog |-> 0])
               /\ UNCHANGED catalog
          ELSE /\ catalog' = AddToCatalog(catalog, new_offerings)
               /\ ret' = Some([status |-> 200,
                               added_to_catalog |-> Len(catalog') - Len(catalog)])
    /\ call' = [call EXCEPT !.served = call.served + 1]
    /\ UNCHANGED <<limiterVars, request, entry, hashes, pc, solverVars, returned, raised,
                   response, run, prev_returned>>

NextLoad ==
    \/ startup_event
    \/ ingest_csv

SpecLoad == InitLoad /\ [][NextLoad]_vars

(***************************************************************************)
(* rate_limiter.py and main.py: POST /ai/parse-schedule.  A request runs     *)
(* check_rate_limit when it arrives, then awaits the AI call, during which *)
(* other requests run, and after a successful call runs increment_usage    *)
(* and get_usage_stats.  Time is counted in hours.                         *)
(***************************************************************************)
DAILY_LIMIT_PER_IP == 5

TOTAL_LIMIT_PER_IP == 15

HOURLY_LIMIT_PER_IP == 3

GLOBAL_TOTAL_LIMIT == 7000

\* timedelta(hours=1) and timedelta(days=1)
HourlyWindow == 1

DailyWindow == 24

MaxRequests == 4

MaxTicks == 1

IPs == {"10.0.0.1", "10.0.0.2"}

\* lines 87-95, in check_rate_limit and in get_usage_stats: the counters of a
\* window that is over are reset
ResetWindows(usage, t) ==
    LET daily == IF usage.daily_reset < t
                 THEN [usage EXCEPT !.daily_count = 0, !.daily_reset = t + DailyWindow]
                 ELSE usage
    IN IF daily.hourly_reset < t
       THEN [daily EXCEPT !.hourly_count = 0, !.hourly_reset = t + HourlyWindow]
       ELSE daily

\* the entry check_rate_limit works on: a new one for an IP without entry
\* (lines 77-85), then the resets
CheckedUsage(storage, ip, t) ==
    ResetWindows(IF ip \in DOMAIN storage THEN storage[ip]
                 ELSE [daily_count |-> 0, hourly_count |-> 0, total_count |-> 0,
                       daily_reset |-> t + DailyWindow,
                       hourly_reset |-> t + HourlyWindow], t)

\* check_rate_limit: allowed
check_rate_limit(storage, total, ip, use_user_key, t) ==
    IF use_user_key THEN TRUE
    ELSE IF total >= GLOBAL_TOTAL_LIMIT THEN FALSE
    ELSE LET usage == CheckedUsage(storage, ip, t)
         IN /\ ~(usage.total_count >= TOTAL_LIMIT_PER_IP)
            /\ ~(usage.daily_count >= DAILY_LIMIT_PER_IP)
            /\ ~(usage.hourly_count >= HOURLY_LIMIT_PER_IP)

\* usage_storage after check_rate_limit
StorageAfterCheck(storage, total, ip, use_user_key, t) ==
    IF use_user_key \/ total >= GLOBAL_TOTAL_LIMIT THEN storage
    ELSE [i \in DOMAIN storage \cup {ip} |->
             IF i = ip THEN CheckedUsage(storage, ip, t) ELSE storage[i]]

\* usage_storage after increment_usage
StorageAfterIncrement(storage, ip, use_user_key) ==
    IF use_user_key \/ ip \notin DOMAIN storage THEN storage
    ELSE [storage EXCEPT ![ip] = [@ EXCEPT !.daily_count = @ + 1,
                                           !.hourly_count = @ + 1,
                                           !.total_count = @ + 1]]

\* usage_storage after get_usage_stats
StorageAfterStats(storage, ip, t) ==
    IF ip \notin DOMAIN storage THEN storage
    ELSE [storage EXCEPT ![ip] = ResetWindows(@, t)]

\* A request: phase is "awaiting" (the AI call is under way), "rejected" (429),
\* "done" (200) or "failed" (500).  hourly_reset and daily_reset are the ends of
\* the windows its check was made in (0 for a request with the user's key, which
\* the check does not look up), and concurrent says that a request with the
\* shared key was awaiting its AI call when this one was checked.
AIRequest(ip, use_user_key, phase, usage, concurrent) ==
    [ip |-> ip, use_user_key |-> use_user_key, phase |-> phase,
     hourly_reset |-> IF use_user_key THEN 0 ELSE usage.hourly_reset,
     daily_reset |-> IF use_user_key THEN 0 ELSE usage.daily_reset,
     concurrent |-> concurrent]

\* What the server did before: nothing; or, for the first IP, three requests
\* four hours ago and one two hours ago, all answered 200; or 14 requests of
\* the first IP, the last one 26 hours ago, with 6999 requests counted over all
\* IPs; or the four requests of the first IP and 6999 over all IPs.
Histories ==
    LET ip == "10.0.0.1"
        four == [i \in 1..4 |->
                    AIRequest(ip, FALSE, "done",
                              [hourly_reset |-> IF i < 4 THEN HourlyWindow - 4
                                                ELSE HourlyWindow - 2,
                               daily_reset |-> DailyWindow - 4], FALSE)]
    IN {[storage |-> <<>>, total |-> 0, requests |-> <<>>],
        [storage |-> [i \in {ip} |->
                        [daily_count |-> 4, hourly_count |-> 1, total_count |-> 4,
                         daily_reset |-> DailyWindow - 4, hourly_reset |-> HourlyWindow - 2]],
         total |-> 4, requests |-> four],
        [storage |-> [i \in {ip} |->
                        [daily_count |-> 1, hourly_count |-> 1,
                         total_count |-> TOTAL_LIMIT_PER_IP - 1,
                         daily_reset |-> 0 - 2, hourly_reset |-> 0 - DailyWindow - 1]],
         total |-> GLOBAL_TOTAL_LIMIT - 1, requests |-> <<>>],
        [storage |-> [i \in {ip} |->
                        [daily_count |-> 4, hourly_count |-> 1, total_count |-> 4,
                         daily_reset |-> DailyWindow - 4, hourly_reset |-> HourlyWindow - 2]],
         total |-> GLOBAL_TOTAL_LIMIT - 1, requests |-> four]}

InitLimiter ==
    /\ NoSolve /\ ret = None
    /\ now = 0
    /\ \E h \in Histories :
          /\ call = [fn |-> "ai_parse_schedule", history |-> h, ticks |-> 0]
          /\ usage_storage = h.storage
          /\ global_usage = h.total
          /\ requests = h.requests

\* ai_parse_schedule up to its await: the check, and the 429 or the AI call
Arrive ==
    /\ call.fn = "ai_parse_schedule"
    /\ Len(requests) < Len(call.history.requests) + MaxRequests
    /\ \E ip \in IPs, use_user_key \in BOOLEAN :
          /\ usage_storage' =
                StorageAfterCheck(usage_storage, global_usage, ip, use_user_key, now)
          /\ requests' = Append(requests,
                AIRequest(ip, use_user_key,
                          IF check_rate_limit(usage_storage, global_usage, ip,
                                              use_user_key, now)
                          THEN "awaiting" ELSE "rejected",
                          CheckedUsage(usage_storage, ip, now),
                          \E k \in 1..Len(requests) :
                              requests[k].phase = "awaiting" /\ ~requests[k].use_user_key))
    /\ UNCHANGED <<solveVars, call, ret, global_usage, now>>

\* ai_parse_schedule after the AI call returned: increment_usage, then
\* get_usage_stats
AiReturns ==
    /\ call.fn = "ai_parse_schedule"
    /\ \E k \in 1..Len(requests) :
          /\ requests[k].phase = "awaiting"
          /\ global_usage' = IF requests[k].use_user_key THEN global_usage
                             ELSE global_usage + 1
          /\ usage_storage' =
                StorageAfterStats(
                    StorageAfterIncrement(usage_storage, requests[k].ip,
                                          requests[k].use_user_key),
                    requests[k].ip, now)
          /\ requests' = [requests EXCEPT ![k].phase = "done"]
    /\ UNCHANGED <<solveVars, call, ret, now>>

\* ai_parse_schedule after the AI call raised: the 500, no counter touched
AiRaises ==
    /\ call.fn = "ai_parse_schedule"
    /\ \E k \in 1..Len(requests) :
          /\ requests[k].phase = "awaiting"
          /\ requests' = [requests EXCEPT ![k].phase = "failed"]
    /\ UNCHANGED <<solveVars, call, ret, usage_storage, global_usage, now>>

\* the clock moves on past the end of an hourly or of a daily window;
\* call.ticks counts these steps
Tick ==
    /\ call.fn = "ai_parse_schedule"
    /\ call.ticks < MaxTicks
    /\ now' \in {now + HourlyWindow + 1, now + DailyWindow + 1}
    /\ call' = [call EXCEPT !.ticks = call.ticks + 1]
    /\ UNCHANGED <<solveVars, ret, usage_storage, global_usage, requests>>

NextLimiter ==
    \/ Arrive
    \/ AiReturns
    \/ AiRaises
    \/ Tick

SpecLimiter == InitLimiter /\ [][NextLimiter]_vars

(***************************************************************************)
(* Properties.                                                             *)
(***************************************************************************)
\* the list solve_schedules returned (empty before it returns)
Ret == IF IsNone(returned) THEN <<>> ELSE Val(returned)

\* the call is over
Final == pc = "done" \/ (pc = "returned" /\ entry = "lib")

\* the meetings of the offering at position i of a schedule
MeetingsAt(sched, i) == SeqRange(sched.offerings[i].meetings)

\* C1: in every returned schedule, for every meeting of one offering and every
\* meeting of a different offering of that schedule, the days differ or one of
\* the two meetings ends at or before the other starts.
C1_NoOverlap ==
    \A k \in 1..Len(Ret) :
        \A i, j \in 1..Len(Ret[k].offerings) :
            i # j =>
                \A m1 \in MeetingsAt(Ret[k], i) : \A m2 \in MeetingsAt(Ret[k], j) :
                    \/ m1.day # m2.day
                    \/ m1.end_min <= m2.start_min
                    \/ m2.end_min <= m1.start_min

\* C1 witness: a schedule was returned in which one offering starts, on the same
\* day, the minute another one ends, while the catalog also holds a section that
\* overlaps one of the two.
C1_Witness ==
    /\ Final
    /\ \E k \in 1..Len(Ret) : \E i, j \in 1..Len(Ret[k].offerings) :
          /\ i # j
          /\ \E m1 \in MeetingsAt(Ret[k], i) : \E m2 \in MeetingsAt(Ret[k], j) :
                m1.day = m2.day /\ m1.end_min = m2.start_min
          /\ \E c \in 1..Len(catalog) : \E m1 \in MeetingsAt(Ret[k], j) :
                \E m2 \in SeqRange(catalog[c].meetings) :
                   /\ catalog[c].course_key # Ret[k].offerings[j].course_key
                   /\ m1.day = m2.day
                   /\ m1.start_min < m2.end_min
                   /\ m2.start_min < m1.end_min

\* C2: no meeting of any offering of a returned schedule intersects an
\* unavailable block of the request on the same day.
C2_AvailabilityHonored ==
    \A k \in 1..Len(Ret) : \A i \in 1..Len(Ret[k].offerings) :
        \A m \in MeetingsAt(Ret[k], i) : \A b \in SeqRange(request.unavailable) :
            \/ m.day # b.day
            \/ m.end_min <= b.start_min
            \/ m.start_min >= b.end_min

\* C2 witness: with a block given, a schedule was returned that has a meeting on
\* the day of the block, and the catalog holds a candidate the block rules out.
C2_Witness ==
    /\ Final
    /\ \E b \in SeqRange(request.unavailable) :
          /\ \E k \in 1..Len(Ret) : \E i \in 1..Len(Ret[k].offerings) :
                \E m \in MeetingsAt(Ret[k], i) : m.day = b.day
          /\ \E ck \in DOMAIN offerings_by_course :
                \E o \in SeqRange(offerings_by_course[ck]) : \E m \in SeqRange(o.meetings) :
                   /\ ck \in SeqRange(request.required_course_keys)
                   /\ m.day = b.day
                   /\ m.start_min < b.end_min
                   /\ b.start_min < m.end_min

\* C6: the returned list is non-decreasing in score.
C6_Sorted ==
    \A k \in 1..(Len(Ret) - 1) : Ret[k].score <= Ret[k + 1].score

\* position of the first offering of a schedule in the catalog
CatalogIndex(o) == CHOOSE c \in 1..Len(catalog) : catalog[c] = o

\* C6 witness: two schedules of different score were returned, and the one
\* returned first was found later by the search.
C6_Witness ==
    /\ Final
    /\ Len(request.required_course_keys) = 1
    /\ Len(Ret) >= 2
    /\ Ret[1].score < Ret[2].score
    /\ CatalogIndex(Ret[1].offerings[1]) > CatalogIndex(Ret[2].offerings[1])

\* the solver has been constructed (the prefilter is done)
Constructed ==
    \/ pc \in {"constructed", "search", "backtracked", "returned"}
    \/ pc = "done" /\ response.status # 400

\* some required course key has no candidate after filtering
SomeRequiredEmpty ==
    \E i \in 1..Len(request.required_course_keys) :
        Get(offerings_by_course, request.required_course_keys[i]) = <<>>

\* C9: when after filtering some required course key has no candidate, solve
\* makes no _backtrack call, takes up no candidate, raises nothing and returns
\* the empty list.
C9_EmptyCourseReturnsAtOnce ==
    (Constructed /\ SomeRequiredEmpty) =>
        /\ bt_calls = 0
        /\ visits = 0
        /\ stack = <<>>
        /\ ~raised
        /\ pc \in {"constructed", "returned", "done"}
        /\ pc \in {"returned", "done"} => returned = Some(<<>>)

\* C9 witness: solve returned while one required key had candidates and
\* another, present in the catalog, had lost all of its sections to the filters.
C9_Witness ==
    /\ pc = "returned"
    /\ \E i, j \in 1..Len(request.required_course_keys) :
          LET k1 == request.required_course_keys[i]
              k2 == request.required_course_keys[j]
          IN /\ Get(offerings_by_course, k1) # <<>>
             /\ k2 \in DOMAIN offerings_by_course
             /\ offerings_by_course[k2] = <<>>

\* the set of CRNs of a list of offerings
CrnSetOf(offs) == {offs[i].crn : i \in 1..Len(offs)}

\* the keys of the request, each once
RequiredKeySet == SeqRange(request.required_course_keys)

\* C3: every returned schedule contains each required course key exactly once
\* and no other offering, also when the request names a key more than once.
C3_Coverage ==
    \A k \in 1..Len(Ret) :
        LET offs == Ret[k].offerings
        IN /\ {offs[i].course_key : i \in 1..Len(offs)} = RequiredKeySet
           /\ \A ck \in RequiredKeySet :
                 Cardinality({i \in 1..Len(offs) : offs[i].course_key = ck}) = 1

\* the sum of the defined credits of a list of offerings
DefinedCredits(offs) ==
    SumSeq([i \in 1..Len(offs) |-> IF offs[i].credits = None THEN 0 ELSE offs[i].credits[1]])

\* the credit window of the request, a bound being checked iff it is present
InWindow(total) ==
    /\ request.min_credits # None => total >= request.min_credits[1]
    /\ request.max_credits # None => total <= request.max_credits[1]

\* C4: total_credits of every returned schedule is the sum of the defined
\* credits of its offerings and lies in the credit window, a bound being
\* checked whenever it is present in the request, 0 included.
C4_CreditWindow ==
    \A k \in 1..Len(Ret) :
        /\ Ret[k].total_credits = DefinedCredits(Ret[k].offerings)
        /\ InWindow(Ret[k].total_credits)

\* two meetings intersect (same day, each starts before the other ends)
Intersect(m1, m2) ==
    m1.day = m2.day /\ m1.start_min < m2.end_min /\ m2.start_min < m1.end_min

\* the combinations of one candidate per position of required_courses that
\* have no meeting overlap and no meeting inside an unavailable block
FeasibleCombos ==
    LET n == Len(required_courses)
        cands == UNION {SeqRange(Get(offerings_by_course, required_courses[d])) : d \in 1..n}
    IN {c \in [1..n -> cands] :
          /\ \A d \in 1..n : c[d] \in SeqRange(Get(offerings_by_course, required_courses[d]))
          /\ \A d, e \in 1..n : d # e =>
                \A m1 \in SeqRange(c[d].meetings) : \A m2 \in SeqRange(c[e].meetings) :
                    ~Intersect(m1, m2)
          /\ \A d \in 1..n : \A m \in SeqRange(c[d].meetings) :
                \A b \in SeqRange(request.unavailable) : ~Intersect(m, b)}

\* the search is over and solve has its result buffer
SearchDone ==
    /\ ~raised
    /\ required_courses # <<>>
    /\ pc \in {"backtracked", "returned", "done"}

\* C5: no two schedules of the result buffer, and so no two returned schedules,
\* have the same set of CRNs, also when several offerings share a CRN; and once
\* the search is over the buffer holds exactly one schedule for the CRN set of
\* every leaf that passed the credit check.
C5_UniqueCrnSets ==
    ~raised =>
       /\ \A i, j \in 1..Len(results) :
             i # j => CrnSetOf(results[i].offerings) # CrnSetOf(results[j].offerings)
       /\ \A i, j \in 1..Len(Ret) :
             i # j => CrnSetOf(Ret[i].offerings) # CrnSetOf(Ret[j].offerings)
       /\ SearchDone =>
             \A c \in FeasibleCombos :
                ~CreditsRejected(request, DefinedCredits(c)) =>
                    Cardinality({i \in 1..Len(results) :
                                   CrnSetOf(results[i].offerings) = CrnSetOf(c)}) = 1

\* C5 witness: the search is over, two different feasible leaves had the same
\* CRN set and passed the credit check, and a schedule was returned.
C5_Witness ==
    /\ Final
    /\ SearchDone
    /\ Len(Ret) >= 1
    /\ \E c1, c2 \in FeasibleCombos :
          /\ c1 # c2
          /\ CrnSetOf(c1) = CrnSetOf(c2)
          /\ ~CreditsRejected(request, DefinedCredits(c1))
          /\ ~CreditsRejected(request, DefinedCredits(c2))

\* C7: a second invocation with the same catalog and request, on a fresh solver
\* in another process, returns the list the first one returned, element by
\* element, scores included.
C7_Deterministic ==
    (run = 2 /\ pc = "returned") => returned = prev_returned

\* the valid schedules of the claim: feasible combinations whose credits lie
\* in the window
ValidCombos == {c \in FeasibleCombos : InWindow(DefinedCredits(c))}

\* C8: solve returns exactly min(max_results, |V|) schedules, V being the valid
\* schedules told apart by their CRN sets; each of them is in V; and no schedule
\* of V that is left out has a strictly lower score than a returned one.
C8_TopK ==
    (SearchDone /\ returned # None) =>
        LET retSigs == {CrnSetOf(Ret[k].offerings) : k \in 1..Len(Ret)}
        IN /\ Len(Ret) = Min2(request.max_results,
                               Cardinality({CrnSetOf(c) : c \in ValidCombos}))
           /\ \A k \in 1..Len(Ret) : Ret[k].offerings \in ValidCombos
           /\ \A c \in ValidCombos :
                 CrnSetOf(c) \notin retSigs =>
                    \A k \in 1..Len(Ret) :
                       ~(_compute_score(c, request.filters, hashes) < Ret[k].score)

\* C10: a /solve call ends in an error only through the validation made before
\* the solver is built (empty catalog, or a required key with no offering in the
\* catalog); a call that passed validation ends in a normal response whose count
\* is the number of returned schedules, also when every branch was pruned.
C10_OnlyValidationErrors ==
    (entry = "http" /\ pc = "done") =>
        /\ response.kind \in {"ok", "error"}
        /\ response.kind = "error" =>
              /\ bt_calls = 0
              /\ offerings_by_course = <<>>
              /\ \/ catalog = <<>>
                 \/ \E ck \in RequiredKeySet :
                       ck \notin {catalog[i].course_key : i \in 1..Len(catalog)}
        /\ response.kind = "ok" =>
              /\ returned # None
              /\ response.schedules = Ret
              /\ response.count = Len(Ret)

\* the offerings of the returned schedules
ReturnedOfferings ==
    UNION {SeqRange(Ret[k].offerings) : k \in 1..Len(Ret)}

\* C11: every offering of every returned schedule has its status in
\* filters.status; when filters.delivery is given (not None) its delivery is in
\* filters.delivery; when filters.avoid_instructors is given its instructor, if
\* present, contains none of those substrings case-insensitively; an honors
\* section appears only if include_honors, any other only if include_non_honors.
C11_AttributeFilters ==
    LET f == request.filters
    IN \A o \in ReturnedOfferings :
          /\ o.status \in f.status
          /\ (~IsNone(f.delivery)) => o.delivery \in SeqRange(Val(f.delivery))
          /\ ((~IsNone(f.avoid_instructors)) /\ ~IsNone(o.instructor)) =>
                \A i \in 1..Len(Val(f.avoid_instructors)) :
                    ~Contains(Lower(Val(f.avoid_instructors)[i]), Lower(Val(o.instructor)))
          /\ StartsWith(Upper(o.section), <<"H">>) => f.include_honors
          /\ (~StartsWith(Upper(o.section), <<"H">>)) => f.include_non_honors

\* C11 with "given" read as "given and not empty" (probe of the root cause)
C11_NonEmptyLists ==
    (~IsNone(request.filters.delivery) => Val(request.filters.delivery) # <<>>)
        => C11_AttributeFilters

\* the candidate offerings: what _prefilter_offerings left in offerings_by_course
Candidates ==
    UNION {SeqRange(offerings_by_course[ck]) : ck \in DOMAIN offerings_by_course}

\* some meeting of o has a location that contains, case-insensitively, one of names
LocatedAt(o, names) ==
    \E m \in SeqRange(o.meetings) : \E k \in 1..Len(names) :
        (~IsNone(m.location)) /\ Contains(Lower(names[k]), Lower(Val(m.location)))

\* C12: when filters.campus_exclude is given no candidate offering has a meeting
\* whose location contains an excluded substring; when filters.campus_include is
\* given every candidate has a meeting whose location contains an included
\* substring; and when either is given no candidate is without meetings.
C12_CampusFilters ==
    LET f == request.filters
    IN \A o \in Candidates :
          /\ (~IsNone(f.campus_exclude)) => ~LocatedAt(o, Val(f.campus_exclude))
          /\ (~IsNone(f.campus_include)) => LocatedAt(o, Val(f.campus_include))
          /\ ((~IsNone(f.campus_exclude)) \/ ~IsNone(f.campus_include)) => o.meetings # <<>>

\* C12 for the candidates that have meetings, under campus lists that are not
\* empty (probe of the root cause)
C12_WithMeetings ==
    LET f == request.filters
    IN \A o \in Candidates :
          o.meetings # <<>> =>
            /\ (~IsNone(f.campus_exclude)) => ~LocatedAt(o, Val(f.campus_exclude))
            /\ ((~IsNone(f.campus_include)) /\ Val(f.campus_include) # <<>>)
                  => LocatedAt(o, Val(f.campus_include))

\* the request's filters with the two time bounds taken away
WithoutTimeWindow(f) == [f EXCEPT !.earliest_start = None, !.latest_end = None]

\* C13: when filters.earliest_start is given (0 included) every meeting of every
\* offering of a returned schedule starts at or after it; when filters.latest_end
\* is given every such meeting ends at or before it; and an offering without
\* meetings that passes the other filters is among the candidates whatever the
\* two bounds are.
C13_TimeWindow ==
    LET f == request.filters
    IN /\ \A o \in ReturnedOfferings : \A m \in SeqRange(o.meetings) :
             /\ (~IsNone(f.earliest_start)) => m.start_min >= Val(f.earliest_start)
             /\ (~IsNone(f.latest_end)) => m.end_min <= Val(f.latest_end)
       /\ pc # "request" =>
             \A o \in SeqRange(catalog) :
                 (o.meetings = <<>> /\ PassesFilters(o, WithoutTimeWindow(f)))
                     => o \in Candidates

\* C13 witness: under a latest_end bound a schedule was returned that holds an
\* offering ending exactly at the bound and an offering without meetings, while
\* a section of the catalog with a meeting ending after the bound is no candidate.
C13_Witness ==
    /\ Final
    /\ ~IsNone(request.filters.latest_end)
    /\ \E k \in 1..Len(Ret) :
          /\ \E o \in SeqRange(Ret[k].offerings) : \E m \in SeqRange(o.meetings) :
                m.end_min = Val(request.filters.latest_end)
          /\ \E o \in SeqRange(Ret[k].offerings) : o.meetings = <<>>
    /\ \E o \in SeqRange(catalog) :
          /\ o \notin Candidates
          /\ o.status = "Open"
          /\ \E m \in SeqRange(o.meetings) : m.end_min > Val(request.filters.latest_end)

\* the meetings of a schedule that fall on day d
OnDay(schedule, d) ==
    {m \in UNION {SeqRange(schedule[i].meetings) : i \in 1..Len(schedule)} : m.day = d}

\* m2 follows m1 directly when the meetings of a day are put in order of start_min
Consecutive(ms, m1, m2) ==
    /\ m1.start_min < m2.start_min
    /\ ~\E m \in ms : m1.start_min < m.start_min /\ m.start_min < m2.start_min

RECURSIVE SumOfGaps(_, _)
\* the sum over a set of <<day, prev, next>> triples of what each gap counts as
SumOfGaps(triples, max_gap) ==
    IF triples = {} THEN 0
    ELSE LET t == CHOOSE x \in triples : TRUE
             gap == t[3].start_min - t[2].end_min
         IN (IF gap <= 0 THEN 0
             ELSE IF (~IsNone(max_gap)) /\ gap > Val(max_gap) THEN 10 * gap
             ELSE gap)
            + SumOfGaps(triples \ {t}, max_gap)

\* the gap term as C14 states it
GapTerm(schedule, max_gap) ==
    SumOfGaps(UNION {{t \in {<<d, m1, m2>> : m1 \in OnDay(schedule, d),
                                              m2 \in OnDay(schedule, d)} :
                         Consecutive(OnDay(schedule, d), t[2], t[3])} :
                     d \in DayOfWeek},
              max_gap)

\* C14: the score of every schedule found is 1000 times the gap term (the sum
\* over days, meetings in order of start_min, of the positive gaps between
\* consecutive meetings, a gap counting tenfold when max_gap_min is set, 0
\* included, and the gap exceeds it), less 100 per preferred instructor and 1
\* per seat, plus the tie-break.  Scores are held times 1000.
C14_GapTerm ==
    \A k \in 1..Len(results) :
        results[k].score =
            1000000 * GapTerm(results[k].offerings, request.filters.max_gap_min)
              - 100000 * InstructorBonus(results[k].offerings, request.filters)
              - 1000 * TotalSeats(results[k].offerings)
              + (CrnSum(results[k].offerings, hashes) % 1000)

\* C14 for every request but those with max_gap_min = 0 (probe of the root cause)
C14_NonZeroMaxGap ==
    request.filters.max_gap_min # Some(0) => C14_GapTerm

\* the gap term the solver computed for the schedule at position k of the buffer
GapOf(k) == _compute_total_gaps(results[k].offerings, request.filters)

\* C15: of any two schedules found for one request, the one with the strictly
\* smaller gap term has the strictly lower score and stands earlier in the
\* sorted buffer, whatever the instructor and seat bonuses are.
C15_GapDominates ==
    pc = "returned" =>
        \A i, j \in 1..Len(results) :
            GapOf(i) < GapOf(j) => (results[i].score < results[j].score /\ i < j)

\* gap, instructor and seat terms of the schedule at position k, as one integer
Combined(k) ==
    1000 * GapOf(k)
      - 100 * InstructorBonus(results[k].offerings, request.filters)
      - TotalSeats(results[k].offerings)

\* 1000 times what the score of position k adds to its other terms
TieBreakOf(k) == results[k].score - 1000 * Combined(k)

\* C16: the tie-break term of every score is the sum of crn_val modulo 1000 in
\* thousandths, between 0 and 0.999 also when the sum is negative; two schedules
\* whose other terms differ are ordered by those terms, and two schedules whose
\* other terms are equal are ordered by their tie-breaks.
C16_TieBreak ==
    /\ \A k \in 1..Len(results) :
          /\ TieBreakOf(k) \in 0..999
          /\ (CrnSum(results[k].offerings, hashes) - TieBreakOf(k)) % 1000 = 0
    /\ \A i, j \in 1..Len(results) :
          /\ Combined(i) < Combined(j) => results[i].score < results[j].score
          /\ Combined(i) = Combined(j) =>
                (results[i].score < results[j].score <=> TieBreakOf(i) < TieBreakOf(j))

\* C16 witness: the search ended with a schedule whose CRN sum is negative, two
\* schedules with equal other terms and different tie-breaks, and two schedules
\* whose other terms and tie-breaks are in opposite order.
C16_Witness ==
    /\ pc = "returned"
    /\ \E k \in 1..Len(results) : CrnSum(results[k].offerings, hashes) < 0
    /\ \E i, j \in 1..Len(results) :
          Combined(i) = Combined(j) /\ TieBreakOf(i) < TieBreakOf(j)
    /\ \E i, j \in 1..Len(results) :
          Combined(i) < Combined(j) /\ TieBreakOf(i) > TieBreakOf(j)

\* C17: m.overlaps(other) is TRUE iff the two meetings are on the same day and
\* each starts strictly before the other ends; it gives the same answer as
\* other.overlaps(m); a meeting that ends at minute t and one that starts at t
\* do not overlap, and meetings on different days never do.
C17_OverlapsSymmetricHalfOpen ==
    (call.fn = "overlaps" /\ ~IsNone(ret)) =>
        LET m == call.args[1]
            other == call.args[2]
        IN /\ Val(ret) <=> (/\ m.day = other.day
                             /\ m.start_min < other.end_min
                             /\ other.start_min < m.end_min)
           /\ Val(ret) = overlaps(other, m)
           /\ m.end_min = other.start_min => ~Val(ret)
           /\ m.day # other.day => ~Val(ret)

\* C17 witness: overlaps answered for two meetings of one day of which the
\* first ends the minute the second starts, both of positive length.
C17_Witness ==
    /\ call.fn = "overlaps"
    /\ ~IsNone(ret)
    /\ call.args[1].day = call.args[2].day
    /\ call.args[1].start_min < call.args[1].end_min
    /\ call.args[1].end_min = call.args[2].start_min
    /\ call.args[2].start_min < call.args[2].end_min

\* max(0, min(ends) - max(starts)) of a meeting and a block
Magnitude(m, s, e) == Max2(0, Min2(m.end_min, e) - Max2(m.start_min, s))

\* C18: for every block with 0 <= start_min <= end_min <= 1440,
\* conflicts_with_unavailable reports a conflict iff max(0, min(ends) -
\* max(starts)) is positive, and the minutes it reports are that magnitude; so a
\* block of length zero conflicts with no meeting and the block [0, 1440) with
\* every meeting.
C18_BlockConflict ==
    (call.fn = "conflicts_with_unavailable" /\ ~IsNone(ret)) =>
        LET m == call.args[1]
            s == call.args[2]
            e == call.args[3]
        IN /\ Val(ret)[1] <=> Magnitude(m, s, e) > 0
           /\ Val(ret)[2] = Magnitude(m, s, e)
           /\ s = e => ~Val(ret)[1]
           /\ (s = 0 /\ e = DayMinutes) => Val(ret)[1]

\* C18 for the blocks of positive length (probe of the root cause)
C18_PositiveLength ==
    (call.fn = "conflicts_with_unavailable" /\ call.args[2] < call.args[3])
        => C18_BlockConflict

\* the positions of a list of offerings that hold the first row of their CRN
FirstOfCrn(rows) ==
    {p \in 1..Len(rows) : ~\E q \in 1..(p - 1) : rows[q].crn = rows[p].crn}

\* the elements of a list at the positions of a set, in list order
AtPositions(rows, ps) == FilterSeq([p \in 1..Len(rows) |-> p], ps)

\* an offering without its meetings
Attributes(o) == [o EXCEPT !.meetings = <<>>]

TriplesOf(meetings) == {Triple(meetings[i]) : i \in 1..Len(meetings)}

\* C19: merge_offerings_by_crn returns one offering per distinct CRN of its
\* input, in order of first occurrence, with the non-meeting attributes of the
\* first row of that CRN and, as meetings, the union of the meetings of all rows
\* of that CRN with no (day, start_min, end_min) triple repeated.
C19_MergeByCrn ==
    (call.fn = "merge_offerings_by_crn" /\ ~IsNone(ret)) =>
        LET rows == call.args[1]
            out == Val(ret)
            first == AtPositions(rows, FirstOfCrn(rows))
        IN /\ Len(out) = Len(first)
           /\ \A k \in 1..Len(out) :
                 /\ Attributes(out[k]) = Attributes(rows[first[k]])
                 /\ TriplesOf(out[k].meetings) =
                       UNION {TriplesOf(rows[p].meetings) :
                                p \in {q \in 1..Len(rows) : rows[q].crn = out[k].crn}}
                 /\ \A a, b \in 1..Len(out[k].meetings) :
                       a # b => Triple(out[k].meetings[a]) # Triple(out[k].meetings[b])

\* a row that lists one (day, start_min, end_min) triple twice
RepeatsTriple(o) == Cardinality(TriplesOf(o.meetings)) < Len(o.meetings)

\* C19 for the inputs in which no row repeats a triple (probe of the root cause)
C19_RowsWithoutRepeats ==
    (call.fn = "merge_offerings_by_crn"
        /\ \A p \in 1..Len(call.args[1]) : ~RepeatsTriple(call.args[1][p]))
        => C19_MergeByCrn

\* how often each triple occurs among the meetings of an offering
TripleBag(o) ==
    [t \in TriplesOf(o.meetings) |->
        Cardinality({i \in 1..Len(o.meetings) : Triple(o.meetings[i]) = t})]

\* C20: deduplicate_offerings returns, in input order, exactly the offerings
\* that no earlier offering of the input equals in CRN and in the multiset of
\* (day, start_min, end_min) triples of its meetings.
C20_Dedup ==
    (call.fn = "deduplicate_offerings" /\ ~IsNone(ret)) =>
        LET rows == call.args[1]
            kept == {p \in 1..Len(rows) :
                       ~\E q \in 1..(p - 1) :
                           /\ rows[q].crn = rows[p].crn
                           /\ TripleBag(rows[q]) = TripleBag(rows[p])}
            ps == AtPositions(rows, kept)
        IN Val(ret) = [k \in 1..Len(ps) |-> rows[ps[k]]]

\* two meetings of the offering have the same day and start_min and different ends
TiesInSortKey(o) ==
    \E a, b \in 1..Len(o.meetings) :
        /\ MeetingSortKey(o.meetings[a]) = MeetingSortKey(o.meetings[b])
        /\ o.meetings[a].end_min # o.meetings[b].end_min

\* C20 for the inputs in which no offering has two meetings of one day and
\* start_min with different ends (probe of the root cause)
C20_NoTiesInSortKey ==
    (call.fn = "deduplicate_offerings"
        /\ \A p \in 1..Len(call.args[1]) : ~TiesInSortKey(call.args[1][p]))
        => C20_Dedup

\* a cell that holds nothing: missing in the file, or an empty or blank text
CellEmpty(cell) == cell = NaN \/ strip(cell) = <<>>

\* the meetings the rule for Days and Times gives a row
ExpectedMeetings(row) ==
    LET days == IF CellEmpty(row.Days) THEN <<>> ELSE parse_days(row.Days)
        times == IF CellEmpty(row.Times) THEN <<None, None>> ELSE parse_times(row.Times)
    IN IF days = <<>> \/ times[1] = None \/ times[2] = None THEN <<>>
       ELSE [i \in 1..Len(days) |-> Meeting(days[i], times[1][1], times[2][1], None)]

RECURSIVE ExpectedOfferings(_)
\* the CRN and the meetings of the offerings the rows give, row by row
ExpectedOfferings(rows) ==
    IF rows = <<>> THEN <<>>
    ELSE (IF CellEmpty(Head(rows).CRN) \/ CellEmpty(Head(rows).Course) THEN <<>>
          ELSE <<<<strip(Head(rows).CRN), ExpectedMeetings(Head(rows))>>>>)
           \o ExpectedOfferings(Tail(rows))

\* C21: for any sequence of rows, normalize_csv returns, in row order, no
\* offering for a row with an empty CRN or an empty course, and for every other
\* row one offering, whose meetings list is empty when the day or time text is
\* empty, TBA or unparseable and holds one meeting per day with the parsed start
\* and end otherwise; no row stops the rows after it from being normalized.
C21_RowPolicy ==
    (call.fn = "normalize_csv" /\ ret # None)
        => [i \in 1..Len(ret[1]) |-> <<ret[1][i].crn, ret[1][i].meetings>>]
             = ExpectedOfferings(call.args[1])

\* C21 for the files in which no CRN or Course cell is missing and every Max
\* cell is a number or holds nothing (probe of the root cause)
C21_TextCells ==
    (call.fn = "normalize_csv"
        /\ \A p \in 1..Len(call.args[1]) :
              /\ call.args[1][p].CRN # NaN
              /\ call.args[1][p].Course # NaN
              /\ ~CapacityRaises(call.args[1][p]))
        => C21_RowPolicy

\* a file whose first row is dropped and whose second row gives an offering
\* with two meetings
C21_LaterRowNormalized ==
    /\ call.fn = "normalize_csv"
    /\ ret # None
    /\ Len(call.args[1]) = 2
    /\ CellEmpty(call.args[1][1].CRN)
    /\ Len(ret[1]) = 1
    /\ Len(ret[1][1].meetings) = 2

\* lines 375-377 applied to a list of offerings
MergeThenDedup(offerings) == deduplicate_offerings(merge_offerings_by_crn(offerings))

\* C22: the CRN-merge followed by the dedup is idempotent: applied to the
\* catalog concatenated with itself (before or after the call has run on it) it
\* gives the offering list it gives for the catalog once, and applied to its own
\* output it returns that output unchanged.
C22_MergeDedupIdempotent ==
    (call.fn = "merge_then_dedup" /\ ret # None)
        => /\ MergeThenDedup(call.args[1] \o call.args[1]) = ret[1]
           /\ MergeThenDedup(call.heap \o call.heap) = ret[1]
           /\ MergeThenDedup(call.heap) = ret[1]
           /\ MergeThenDedup(ret[1]) = ret[1]

\* a call on three rows of one CRN, whose result is one offering with the two
\* meetings of the rows
C22_Witness ==
    /\ call.fn = "merge_then_dedup"
    /\ ret # None
    /\ Len(call.args[1]) = 3
    /\ Len(ret[1]) = 1
    /\ Len(ret[1][1].meetings) = 2
    /\ call.heap # call.args[1]

\* C23: every meeting of every offering that normalize_multiple_csvs returns
\* satisfies 0 <= start_min < end_min <= 1440, whatever the Times texts of the
\* rows are.
C23_MeetingBounds ==
    (call.fn = "normalize_multiple_csvs" /\ ret # None)
        => \A k \in 1..Len(ret[1]) : \A i \in 1..Len(ret[1][k].meetings) :
              /\ 0 <= ret[1][k].meetings[i].start_min
              /\ ret[1][k].meetings[i].start_min < ret[1][k].meetings[i].end_min
              /\ ret[1][k].meetings[i].end_min <= DayMinutes

\* the sides of the ranges that are times of the 12-hour clock
ClockSides ==
    {TimeText(9, 0, <<" ">>, <<"A", "M">>), TimeText(9, 50, <<>>, <<"a", "m">>),
     TimeText(12, 0, <<" ">>, <<"P", "M">>), TimeText(12, 0, <<" ">>, <<"A", "M">>),
     TimeText(11, 59, <<" ">>, <<"p", "m">>)}

\* C23 for the files of one row whose Times cell holds two times of the 12-hour
\* clock, the earlier one first (probe of the root cause)
C23_OrderedClockTimes ==
    (call.fn = "normalize_multiple_csvs"
        /\ \E a \in ClockSides, b \in ClockSides, sep \in Separators :
              /\ parse_time(a)[1] < parse_time(b)[1]
              /\ call.args[1] =
                    <<<<CsvRow(CRN101, CS100, <<"M", "W">>, a \o sep \o b, <<"4", "0">>)>>>>)
        => C23_MeetingBounds

\* a file of the probe has been normalized to an offering with two meetings
C23_ClockWitness ==
    /\ C23_OrderedClockTimes
    /\ call.fn = "normalize_multiple_csvs"
    /\ ret # None
    /\ Len(call.args[1]) = 1
    /\ Len(ret[1]) = 1
    /\ Len(ret[1][1].meetings) = 2
    /\ ret[1][1].meetings[1].start_min = 0
    /\ ret[1][1].meetings[1].end_min = 1439

\* the hour of the day of hour h of the 12-hour clock with a meridiem
HourOfDay(h, meridiem) ==
    IF meridiem \in {<<"A", "M">>, <<"a", "m">>}
    THEN (IF h = 12 THEN 0 ELSE h)
    ELSE (IF h = 12 THEN 12 ELSE h + 12)

\* C24: parse_time maps H:MM with a meridiem, H in 1..12 and MM in 00..59, to
\* the minute of the day in 0..1439: 12 AM is hour 0, 12 PM is hour 12, any
\* other PM hour is H + 12 and any other AM hour is H; parse_times returns the
\* pair of the two sides of a range, and (None, None) for an empty or TBA range.
C24_ParseTime ==
    /\ (call.fn = "parse_time" /\ ret # None)
          => \A h \in 1..12, mer \in Meridiems, sep \in {<<>>, <<" ">>} :
                Len(call.args[1]) = Len(TimeText(h, 0, sep, mer))
                   => \A mm \in 0..59 :
                         call.args[1] = TimeText(h, mm, sep, mer)
                            => /\ ret[1] = Some(HourOfDay(h, mer) * 60 + mm)
                               /\ ret[1][1] \in 0..(DayMinutes - 1)
    /\ (call.fn = "parse_times" /\ ret # None)
          => /\ call.args[1] \in {<<>>, <<" ">>, <<"T", "B", "A">>, <<"t", "b", "a">>}
                   => ret[1] = <<None, None>>
             /\ \A a \in RangeSides, sep \in Separators, b \in RangeSides :
                   call.args[1] = a \o sep \o b
                      => ret[1] = <<parse_time(a), parse_time(b)>>

\* parse_time has returned 0 for 12:00 AM
C24_Midnight ==
    /\ call.fn = "parse_time"
    /\ call.args[1] = TimeText(12, 0, <<" ">>, <<"A", "M">>)
    /\ ret = Some(Some(0))

\* parse_time has returned 720 for 12:00 PM
C24_Noon ==
    /\ call.fn = "parse_time"
    /\ call.args[1] = TimeText(12, 0, <<" ">>, <<"P", "M">>)
    /\ ret = Some(Some(720))

\* parse_times has returned the two sides of 12:00 PM to 12:50 PM
C24_Range ==
    /\ call.fn = "parse_times"
    /\ call.args[1] = TimeText(12, 0, <<" ">>, <<"P", "M">>) \o <<" ", "t", "o", " ">>
                        \o TimeText(11, 59, <<" ">>, <<"p", "m">>)
    /\ ret = Some(<<Some(720), Some(1439)>>)

\* C25: every solve call terminates: it reaches the final sort and returns.
C25_Terminates == <>(returned # None)

\* every solve call ends, by a return or by the exception of _compute_score
\* (probe of the root cause)
C25_ReturnsOrRaises == <>(returned # None \/ raised)

RECURSIVE PartialCombinations(_, _)
\* the number of combinations of candidates of the first k courses, for every
\* k from 0 to the number of courses
PartialCombinations(obc, courses) ==
    IF courses = <<>> THEN 1
    ELSE 1 + Len(Get(obc, Head(courses))) * PartialCombinations(obc, Tail(courses))

\* the search visits each combination of candidates at most once, and the
\* _backtrack call at depth d works on course d, for d from 0 to the number of
\* required course keys
C25_BoundedSearch ==
    /\ bt_calls <= PartialCombinations(offerings_by_course, required_courses)
    /\ Len(stack) <= Len(required_courses) + 1
    /\ \A d \in 1..Len(stack) : stack[d].course_idx = d - 1
    /\ \A d \in 1..Len(stack) : stack[d].i <= Len(Get(offerings_by_course,
                                    required_courses[Min2(d, Len(required_courses))])) + 1

\* C26: during one solve the result buffer never holds more than
\* 2 x max_results schedules.
C26_BufferBound == Len(results) <= 2 * request.max_results

\* C26, the steps: once the buffer holds 2 x max_results schedules, no further
\* candidate is tried and no further schedule is appended.
C26_StopsAtBound ==
    [][(pc = "search" /\ Len(results) >= 2 * request.max_results)
          => (visits' = visits /\ results' = results)]_vars

\* the buffer has reached 2 x max_results schedules during a search
C26_BoundReached == pc = "search" /\ Len(results) = 2 * request.max_results

\* C27: merge_offerings_by_crn and deduplicate_offerings leave every field of
\* every offering they receive, its meetings list included, as it was passed.
C27_OfferingsUnchanged ==
    call.fn \in {"merge_offerings_by_crn", "deduplicate_offerings"}
        => call.heap = call.args[1]

\* C27 for deduplicate_offerings alone (probe of the root cause)
C27_DedupLeavesOfferings ==
    (call.fn = "deduplicate_offerings" /\ ret # None) => call.heap = call.args[1]

\* C27, the solver: no step of a solve changes the catalog, and a search step
\* leaves every schedule of the result buffer in place and as it was appended
\* (probe of the root cause)
C27_SolverLeavesCatalog ==
    [][/\ catalog' = catalog
       /\ pc = "search" =>
             /\ Len(results') >= Len(results)
             /\ SubSeq(results', 1, Len(results)) = results]_vars

\* merge_offerings_by_crn has returned and the first of the rows it was passed
\* now has more meetings than when it was passed
C27_FirstRowGrown ==
    /\ call.fn = "merge_offerings_by_crn"
    /\ ret # None
    /\ Len(call.heap[1].meetings) > Len(call.args[1][1].meetings)

\* the files of the directory followed by the files uploaded so far
FilesLoaded ==
    call.dir \o [i \in 1..call.served |-> call.uploads[i].rows]

\* every upload answered so far had a .csv filename
AllCsv == \A i \in 1..call.served : call.uploads[i].csv

\* C28: once the server has started, the catalog built by the startup load and
\* the /ingest/csv calls answered so far is the catalog normalize_multiple_csvs
\* gives for the same files together, so rows that share a CRN, in one file or
\* across files, are one offering with the union of their meetings.
C28_LoadPathsAgree ==
    (call.fn = "serve" /\ call.started /\ AllCsv)
        => catalog = normalize_multiple_csvs(FilesLoaded)

\* the CRNs of the offerings the rows of the files give, one entry per row
RECURSIVE CrnsOfFiles(_)
CrnsOfFiles(files) ==
    IF files = <<>> THEN <<>>
    ELSE LET offerings == normalize_csv(Head(files))
         IN [i \in 1..Len(offerings) |-> offerings[i].crn] \o CrnsOfFiles(Tail(files))

\* C28 for the loads in which no CRN is on two rows that were uploaded or on a
\* row of the directory and a row that was uploaded, and for the startup load
\* alone (probe of the root cause)
C28_NoSharedCrnUploaded ==
    (call.fn = "serve"
        /\ LET dirCrns == CrnsOfFiles(call.dir)
               upCrns == CrnsOfFiles([i \in 1..call.served |-> call.uploads[i].rows])
           IN /\ IsInjective(upCrns)
              /\ SeqRange(dirCrns) \cap SeqRange(upCrns) = {})
        => C28_LoadPathsAgree

\* two files that share a CRN have been ingested and no file was in the
\* directory
C28_SharedCrnIngested ==
    /\ call.fn = "serve"
    /\ call.started
    /\ call.dir = <<>>
    /\ call.served = 2
    /\ AllCsv
    /\ call.uploads[1].rows = <<CsvRowPool[1]>>
    /\ call.uploads[2].rows = <<CsvRowPool[2]>>

\* C29: after the startup load and any sequence of /ingest/csv calls the
\* catalog holds at most one offering per CRN, and an ingest leaves every
\* offering that is in the catalog in its place and as it is.
C29_OneOfferingPerCrn ==
    /\ [](call.fn = "serve" => IsInjective([i \in 1..Len(catalog) |-> catalog[i].crn]))
    /\ [][(call.fn = "serve" /\ call.started)
             => /\ Len(catalog') >= Len(catalog)
                /\ SubSeq(catalog', 1, Len(catalog)) = catalog]_vars

\* an upload with a row of a CRN the startup load had put in the catalog has
\* been answered, and nothing was added
C29_Witness ==
    /\ call.fn = "serve"
    /\ call.dir = <<<<CsvRowPool[1]>>>>
    /\ call.served = 1
    /\ call.uploads[1] = Upload(TRUE, <<CsvRowPool[2]>>)
    /\ ret = Some([status |-> 200, added_to_catalog |-> 0])
    /\ Len(catalog) = 1

\* the requests made after the history, by position
NewRequests == (Len(call.history.requests) + 1)..Len(requests)

\* the requests with the shared key that passed the check
Passed(ks, ip) ==
    {k \in ks : /\ requests[k].ip = ip
                /\ ~requests[k].use_user_key
                /\ requests[k].phase # "rejected"}

\* total_count of an IP when the history ended
PriorTotal(ip) ==
    IF ip \in DOMAIN call.history.storage THEN call.history.storage[ip].total_count ELSE 0

\* C30: under any interleaving of /ai/parse-schedule requests with the shared
\* key, the requests of one IP that pass the check are at most 3 within one
\* hourly window, at most 5 within one daily window and at most 15 in total,
\* and those of all IPs at most 7000; no request with the user's own key is
\* rejected.
C30_LimitsHold ==
    call.fn = "ai_parse_schedule" =>
        /\ \A ip \in IPs : \A k \in Passed(DOMAIN requests, ip) :
              /\ Cardinality({j \in Passed(DOMAIN requests, ip) :
                     requests[j].hourly_reset = requests[k].hourly_reset})
                   <= HOURLY_LIMIT_PER_IP
              /\ Cardinality({j \in Passed(DOMAIN requests, ip) :
                     requests[j].daily_reset = requests[k].daily_reset})
                   <= DAILY_LIMIT_PER_IP
        /\ \A ip \in IPs :
              PriorTotal(ip) + Cardinality(Passed(NewRequests, ip)) <= TOTAL_LIMIT_PER_IP
        /\ call.history.total + Cardinality(UNION {Passed(NewRequests, ip) : ip \in IPs})
             <= GLOBAL_TOTAL_LIMIT
        /\ \A k \in DOMAIN requests :
              requests[k].use_user_key => requests[k].phase # "rejected"

\* C30 for the runs in which no request with the shared key is checked while
\* another one awaits its AI call, and no AI call raises (probe of the root
\* cause)
C30_OneAtATime ==
    (call.fn = "ai_parse_schedule"
        /\ \A k \in DOMAIN requests :
              ~requests[k].concurrent /\ requests[k].phase # "failed")
        => C30_LimitsHold

\* C30, requests with the user's own key: none is rejected, and none changes
\* total_count of an IP or the global counter
C30_UserKeyUncounted ==
    /\ [](call.fn = "ai_parse_schedule" =>
            \A k \in DOMAIN requests :
               requests[k].use_user_key => requests[k].phase # "rejected")
    /\ [][\A k \in DOMAIN requests' :
             (/\ requests'[k].use_user_key
              /\ (k \notin DOMAIN requests \/ requests[k].phase # requests'[k].phase))
                => /\ global_usage' = global_usage
                   /\ DOMAIN usage_storage' = DOMAIN usage_storage
                   /\ \A ip \in DOMAIN usage_storage :
                         usage_storage'[ip].total_count = usage_storage[ip].total_count]_vars

\* C30, requests with the user's own key: none changes any counter
C30_UserKeyChangesNothing ==
    [][\A k \in DOMAIN requests' :
          (/\ requests'[k].use_user_key
           /\ (k \notin DOMAIN requests \/ requests[k].phase # requests'[k].phase))
             => (global_usage' = global_usage /\ usage_storage' = usage_storage)]_vars

\* four requests of one IP with the shared key have passed the check in one
\* hourly window and have all been answered 200
C30_FourInOneHour ==
    /\ call.fn = "ai_parse_schedule"
    /\ call.history.requests = <<>>
    /\ Len(requests) = 4
    /\ \A k \in 1..4 : /\ requests[k].ip = "10.0.0.1"
                      /\ ~requests[k].use_user_key
                      /\ requests[k].phase = "done"
                      /\ requests[k].hourly_reset = requests[1].hourly_reset

====
